---- MODULE Spec2Model ----
(***************************************************************************)
(* A model of the Game Boy emulator core: the memory regions, the          *)
(* cartridge, the memory controller (the bus), the display registers and   *)
(* the CPU interpreter.  The state is the object graph that                *)
(* Gameboy.__init__ builds; every operator is named after the function or  *)
(* method it is translated from.                                           *)
(***************************************************************************)
EXTENDS Integers, Sequences, FiniteSets, TLC

VARIABLES
    cpu,        \* CPU: registers (12 bytes), IME, cycles, total_cycles
    memory,     \* MemoryController: boot_rom, boot_rom_active, home, RAM
    display,    \* Display: ram (VRAM), LY, SCY, SCX, BGPAL, _LCDCONT, pixels
    cartridge,  \* Cartridge: rom_bank (list of read-only Memory)
    raised,     \* the exception the last operation ended with, or NoError
    last,       \* observation: the last operation and the CPU before it
    history,    \* observation: the CPU steps taken so far, oldest first
    steps       \* observation: number of operations performed so far

vars == <<cpu, memory, display, cartridge, raised, last, history, steps>>

(***************************************************************************)
(* Python integer operators on the values the program uses.                *)
(***************************************************************************)
RECURSIVE NatAnd(_, _)
NatAnd(a, b) ==
    IF a = 0 \/ b = 0 THEN 0
    ELSE (a % 2) * (b % 2) + 2 * NatAnd(a \div 2, b \div 2)

RECURSIVE NatOr(_, _)
NatOr(a, b) ==
    IF a = 0 THEN b
    ELSE IF b = 0 THEN a
    ELSE (IF a % 2 = 1 \/ b % 2 = 1 THEN 1 ELSE 0) + 2 * NatOr(a \div 2, b \div 2)

RECURSIVE NatXor(_, _)
NatXor(a, b) ==
    IF a = 0 THEN b
    ELSE IF b = 0 THEN a
    ELSE (IF a % 2 = b % 2 THEN 0 ELSE 1) + 2 * NatXor(a \div 2, b \div 2)

\* ~x on a Python int.
Invert(x) == 0 - x - 1

\* a & b and a ^ b for a >= 0 and b any Python int (two's complement);
\* a | b for a, b >= 0.
BitAnd(a, b) == IF b < 0 THEN a - NatAnd(a, Invert(b)) ELSE NatAnd(a, b)
BitOr(a, b) == NatOr(a, b)
BitXor(a, b) == IF b < 0 THEN Invert(NatXor(a, Invert(b))) ELSE NatXor(a, b)

ShiftL(x, n) == x * (2 ^ n)
ShiftR(x, n) == x \div (2 ^ n)

(***************************************************************************)
(* Exceptions.  An operation that raises leaves the state as it was when   *)
(* the exception was raised and records the exception class; for the two   *)
(* EmulatorErrors CPU.execute builds from a message, how the message       *)
(* begins.                                                                 *)
(***************************************************************************)
NoError == "NoError"
EmulatorError == "EmulatorError"
\* CPU.unknown_opcode and CPU.not_implemented: each returns an EmulatorError.
unknown_opcode == "EmulatorError: Unknown instruction"
not_implemented == "EmulatorError: Not implemented instruction"
MemoryError == "MemoryError"
OpcodeError == "OpcodeError"
InvalidOpcodeError == "InvalidOpcodeError"
KeyError == "KeyError"
IndexError == "IndexError"
TypeError == "TypeError"
AssertionError == "AssertionError"

(***************************************************************************)
(* util.py                                                                 *)
(***************************************************************************)
\* A conversion that leaves the byte unsigned.
u8_to_signed_unsigned(value) == value

u8_to_signed(value) == IF value > 127 THEN 0 - (256 - value) ELSE value

\* Returns <<hi, lo>>.
u16_to_u8(value) == <<ShiftR(BitAnd(value, 65280), 8), BitAnd(value, 255)>>

u8_to_u16(hi, lo) == BitOr(ShiftL(hi, 8), lo)

\* The register file's 16-bit views: big-endian pairs of the byte array.
get16be(array, index) == BitOr(ShiftL(array[index], 8), array[index + 1])

set16be(array, index, value) ==
    [array EXCEPT ![index] = (value \div 256) % 256,
                  ![index + 1] = value % 256]

(***************************************************************************)
(* instructions.py                                                         *)
(***************************************************************************)
swap8(n) == BitOr(ShiftL(BitAnd(n, 15), 4), ShiftR(n, 4))

inc16(n) == (n + 1) % 65535

(***************************************************************************)
(* memory.py: class Memory.  A region is an array of `length` bytes; it is *)
(* kept as the byte `fill` that most cells hold plus `data`, the cells     *)
(* that differ from it (a sparse array: two regions with the same bytes    *)
(* are the same value).                                                    *)
(***************************************************************************)
Memory(length, fill, data, readonly, name) ==
    [length |-> length, fill |-> fill, data |-> data,
     readonly |-> readonly, name |-> name]

MemoryLen(m) == m.length

\* self.data[index] for an index Python accepts (negative ones count from the end).
ArrayGet(m, index) ==
    LET i == index % m.length
    IN IF i \in DOMAIN m.data THEN m.data[i] ELSE m.fill

\* self.data[index] = byte, keeping the sparse form canonical.
ArraySet(m, index, byte) ==
    LET i == index % m.length
        rest == [j \in (DOMAIN m.data) \ {i} |-> m.data[j]]
    IN [m EXCEPT !.data = IF byte = m.fill THEN rest ELSE (i :> byte) @@ rest]

ArrayIndexOk(m, index) == index >= 0 - m.length /\ index < m.length

\* Memory.__getitem__: <<exception, value>>.
MemoryGetitem(m, index) ==
    IF ArrayIndexOk(m, index) THEN <<NoError, ArrayGet(m, index)>>
    ELSE <<MemoryError, 0>>

\* Memory.__setitem__: <<exception, region after the write>>.
MemorySetitem(m, index, value) ==
    IF m.readonly THEN <<MemoryError, m>>
    ELSE IF ~ArrayIndexOk(m, index) THEN <<IndexError, m>>
    ELSE <<NoError, ArraySet(m, index, value % 256)>>

(***************************************************************************)
(* The machine: the objects Gameboy.__init__ builds, as one record         *)
(*   gb = [cpu, memory, display, cartridge, raised, Z, N, H, C, cycles],   *)
(* where Z, N, H, C and cycles are the locals of CPU.execute.  Every       *)
(* operation maps a machine to a machine and does nothing once an          *)
(* exception is raised (gb.raised # NoError).                              *)
(***************************************************************************)
None == -65536

Raise(gb, exception) ==
    IF gb.raised # NoError THEN gb ELSE [gb EXCEPT !.raised = exception]

\* One statement after another: the machine g the first statement leaves
\* is computed, and K continues from it unless an exception was raised.
Then(g, K(_)) == IF g.raised # NoError THEN g ELSE K(g)

(***************************************************************************)
(* cartridge.py                                                            *)
(***************************************************************************)
BankSize == \h4000

\* rom[start:end] of a sparse byte array, as a read-only Memory.
RomSlice(rom, start, end) ==
    Memory(end - start, rom.fill,
           [i \in {j - start : j \in {k \in DOMAIN rom.data : k >= start /\ k < end}}
                |-> rom.data[i + start]],
           TRUE, "Cartridge ROM bank")

\* Cartridge.__init__ with a rom: the loop that divides it into 16 kB banks.
RECURSIVE DivideRom(_, _, _)
DivideRom(rom, start, banks) ==
    IF ~(start < rom.length) THEN banks
    ELSE IF start + BankSize < rom.length
         THEN DivideRom(rom, start + BankSize,
                        Append(banks, RomSlice(rom, start, start + BankSize)))
         ELSE Append(banks, RomSlice(rom, start, rom.length))

Cartridge(rom) == [rom_bank |-> DivideRom(rom, 0, <<>>)]

\* A rom_banks that reads the header code as 2 << (code + 1).
rom_banks_shifted(cart) ==
    LET size == ArrayGet(cart.rom_bank[1], \h148)
    IN CASE size = \h0 -> 4
         [] size = \h1 -> 8
         [] OTHER -> None

\* Cartridge.rom_banks: the bank count the header byte 0x148 encodes.
rom_banks(cart) ==
    LET size == ArrayGet(cart.rom_bank[1], \h148)
    IN CASE size = \h0 -> 2
         [] size = \h1 -> 4
         [] size = \h2 -> 8
         [] size = \h3 -> 16
         [] size = \h4 -> 32
         [] size = \h5 -> 64
         [] size = \h6 -> 128
         [] size = \h52 -> 72
         [] size = \h53 -> 80
         [] size = \h54 -> 96
         [] OTHER -> None

(***************************************************************************)
(* display.py: the registers the bus reaches.                              *)
(***************************************************************************)
\* Display.LCDCONT setter.
SetLCDCONT(gb, value) == [gb EXCEPT !.display.LCDCONT = value % \hff]

screen_on(d) == BitAnd(d.LCDCONT, ShiftL(1, 7)) # 0

background_display(d) == BitAnd(d.LCDCONT, 1) = 1

(***************************************************************************)
(* memory.py: class MemoryController.                                      *)
(***************************************************************************)
\* A _memory_map that keeps the boot ROM mapped whatever boot_rom_active is.
memory_map_boot_rom_stays(gb, address) ==
    IF 0 <= address /\ address < \h0100
    THEN <<"boot_rom", \h0>>
    ELSE IF 0 <= address /\ address < \h4000 THEN <<"fixed_home", \h0>>
    ELSE IF address < \h8000 THEN <<"home", \h4000>>
    ELSE IF address < \ha000 THEN <<"display.ram", \h8000>>
    ELSE IF address < \hc000 THEN <<"expanded_work_ram", \ha000>>
    ELSE IF address <= \hffff THEN <<"internal_work_ram", \hc000>>
    ELSE <<"None", None>>

\* MemoryController._memory_map: <<region, offset>>; the region is named by
\* the attribute that holds it.
memory_map(gb, address) ==
    IF 0 <= address /\ address < \h0100 /\ gb.memory.boot_rom_active
    THEN <<"boot_rom", \h0>>
    ELSE IF 0 <= address /\ address < \h4000 THEN <<"fixed_home", \h0>>
    ELSE IF address < \h8000 THEN <<"home", \h4000>>
    ELSE IF address < \ha000 THEN <<"display.ram", \h8000>>
    ELSE IF address < \hc000 THEN <<"expanded_work_ram", \ha000>>
    ELSE IF address <= \hffff THEN <<"internal_work_ram", \hc000>>
    ELSE <<"None", None>>

\* The Memory object an attribute refers to.
Region(gb, attr) ==
    CASE attr = "boot_rom" -> gb.memory.boot_rom
      [] attr = "fixed_home" -> gb.cartridge.rom_bank[gb.memory.fixed_home + 1]
      [] attr = "home" -> gb.cartridge.rom_bank[gb.memory.home + 1]
      [] attr = "display.ram" -> gb.display.ram
      [] attr = "expanded_work_ram" -> gb.memory.expanded_work_ram
      [] attr = "internal_work_ram" -> gb.memory.internal_work_ram

\* memory[index] = value on the Memory object an attribute refers to.
RegionSetitem(gb, attr, index, value) ==
    LET r == MemorySetitem(Region(gb, attr), index, value)
        m == r[2]
    IN IF gb.raised # NoError THEN gb
       ELSE IF r[1] # NoError THEN Raise(gb, r[1])
       ELSE CASE attr = "boot_rom" -> [gb EXCEPT !.memory.boot_rom = m]
              [] attr = "fixed_home" ->
                   [gb EXCEPT !.cartridge.rom_bank[gb.memory.fixed_home + 1] = m]
              [] attr = "home" ->
                   [gb EXCEPT !.cartridge.rom_bank[gb.memory.home + 1] = m]
              [] attr = "display.ram" -> [gb EXCEPT !.display.ram = m]
              [] attr = "expanded_work_ram" ->
                   [gb EXCEPT !.memory.expanded_work_ram = m]
              [] attr = "internal_work_ram" ->
                   [gb EXCEPT !.memory.internal_work_ram = m]

\* MemoryController.__getitem__: <<exception, byte>>.
Getitem(gb, address) ==
    IF address = \hff40 THEN <<NoError, gb.display.LCDCONT>>
    ELSE IF address = \hff42 THEN <<NoError, gb.display.SCY>>
    ELSE IF address = \hff43 THEN <<NoError, gb.display.SCX>>
    ELSE IF address = \hff44 THEN <<NoError, gb.display.LY>>
    ELSE IF address = \hff47 THEN <<NoError, gb.display.BGPAL>>
    ELSE LET map == memory_map(gb, address)
             offset == map[2]
         IN IF map[1] = "None" THEN <<NoError, 0>>
            ELSE IF address < offset THEN <<MemoryError, 0>>
            ELSE IF (address - offset) < MemoryLen(Region(gb, map[1]))
                 THEN MemoryGetitem(Region(gb, map[1]), address - offset)
                 ELSE <<MemoryError, 0>>

\* The byte a read returns (0 when the read raises).
Peek(gb, address) == Getitem(gb, address)[2]

\* A bank switch without `if value == 0: value = 1`.
BankSwitch_zero_selects_zero(gb, value) ==
    LET n == rom_banks(gb.cartridge)
        bank == value % n
    IN IF n = None THEN Raise(gb, TypeError)
       ELSE IF bank + 1 \in DOMAIN gb.cartridge.rom_bank
            THEN [gb EXCEPT !.memory.home = bank]
            ELSE gb

\* The bank-switch branch of MemoryController.__setitem__ (address < 0x8000).
BankSwitch(gb, value) ==
    LET n == rom_banks(gb.cartridge)
        v == value % n
        bank == IF v = 0 THEN 1 ELSE v
    IN IF n = None THEN Raise(gb, TypeError)
       ELSE IF bank + 1 \in DOMAIN gb.cartridge.rom_bank
            THEN [gb EXCEPT !.memory.home = bank]
            ELSE gb

\* The mirroring at the end of MemoryController.__setitem__.
MirrorWrite(gb, attr, address, offset, value) ==
    IF \hc000 <= address /\ address <= \hde00
    THEN RegionSetitem(gb, attr, address + \h1000 - offset, value % \h100)
    ELSE IF \he000 <= address /\ address <= \hfe00
    THEN RegionSetitem(gb, attr, address - \h1000 - offset, value % \h100)
    ELSE gb

\* MemoryController.__setitem__.
Setitem(gb, address, value) ==
    IF gb.raised # NoError THEN gb
    ELSE IF address = \hff40 THEN SetLCDCONT(gb, value)
    ELSE IF address = \hff42 THEN [gb EXCEPT !.display.SCY = value]
    ELSE IF address = \hff43 THEN [gb EXCEPT !.display.SCX = value]
    ELSE IF address = \hff44 THEN [gb EXCEPT !.display.LY = 0]
    ELSE IF address = \hff47 THEN [gb EXCEPT !.display.BGPAL = value]
    ELSE LET g1 == IF address = \hff50 /\ gb.memory.boot_rom_active
                   THEN [gb EXCEPT !.memory.boot_rom_active = FALSE]
                   ELSE gb
             map == memory_map(g1, address)
         IN IF address < \h8000 THEN BankSwitch(g1, value)
            ELSE IF map[1] = "None" THEN g1
            ELSE MirrorWrite(RegionSetitem(g1, map[1], address - map[2], value),
                             map[1], address, map[2], value)

\* MemoryController.get16: <<exception, value>>; the byte at address+1 is read first.
get16(gb, address) ==
    LET hi == Getitem(gb, address + 1)
        lo == Getitem(gb, address)
    IN IF hi[1] # NoError THEN <<hi[1], 0>>
       ELSE IF lo[1] # NoError THEN <<lo[1], 0>>
       ELSE IF ~(0 <= lo[2] /\ lo[2] <= \hff /\ 0 <= hi[2] /\ hi[2] <= \hff)
            THEN <<AssertionError, 0>>
       ELSE <<NoError, u8_to_u16(hi[2], lo[2])>>

\* A set16 that stores the high byte at `address` and the low byte above it.
set16_swapped(gb, address, value) ==
    IF gb.raised # NoError THEN gb
    ELSE IF ~(0 <= value /\ value <= \hffff) THEN Raise(gb, AssertionError)
    ELSE Setitem(Setitem(gb, address + 1, u16_to_u8(value)[2]),
                 address, u16_to_u8(value)[1])

\* MemoryController.set16.
set16(gb, address, value) ==
    IF gb.raised # NoError THEN gb
    ELSE IF ~(0 <= value /\ value <= \hffff) THEN Raise(gb, AssertionError)
    ELSE Setitem(Setitem(gb, address + 1, u16_to_u8(value)[1]),
                 address, u16_to_u8(value)[2])

(***************************************************************************)
(* opcodes.py                                                              *)
(***************************************************************************)
TYPE_VOID == 0
TYPE_D8 == 1
TYPE_D16 == 2
TYPE_A8 == 3
TYPE_A16 == 4
TYPE_R8 == 5

add_0xff00_opcodes == {\he0, \hf0}

\* A table row: cycles is <<n>> for an int and <<taken, not taken>> for a
\* tuple; flags is <<>> for None, else the descriptor with 0 and 1 as
\* "0" and "1" and a None element as "None".
Op(name, bytelen, type, cycles, flags) ==
    [name |-> name, bytelen |-> bytelen, type |-> type,
     cycles |-> cycles, flags |-> flags]

extended_opcodes ==
       \h11 :> Op("RL C", 1, TYPE_VOID, <<8>>, <<"Z", "0", "0", "C">>)
    @@ \h30 :> Op("SWAP B", 2, TYPE_VOID, <<8>>, <<"Z", "0", "0", "0">>)
    @@ \h31 :> Op("SWAP C", 2, TYPE_VOID, <<8>>, <<"Z", "0", "0", "0">>)
    @@ \h32 :> Op("SWAP D", 2, TYPE_VOID, <<8>>, <<"Z", "0", "0", "0">>)
    @@ \h33 :> Op("SWAP E", 2, TYPE_VOID, <<8>>, <<"Z", "0", "0", "0">>)
    @@ \h34 :> Op("SWAP H", 2, TYPE_VOID, <<8>>, <<"Z", "0", "0", "0">>)
    @@ \h35 :> Op("SWAP L", 2, TYPE_VOID, <<8>>, <<"Z", "0", "0", "0">>)
    @@ \h36 :> Op("SWAP (HL)", 2, TYPE_VOID, <<8>>, <<"Z", "0", "0", "0">>)
    @@ \h37 :> Op("SWAP A", 2, TYPE_VOID, <<8>>, <<"Z", "0", "0", "0">>)
    @@ \h7c :> Op("BIT 7, H", 1, TYPE_VOID, <<8>>, <<"Z", "0", "1">>)

opcodes ==
       \h00 :> Op("NOP", 1, TYPE_VOID, <<4>>, <<>>)
    @@ \h01 :> Op("LD BC, d16", 3, TYPE_D16, <<12>>, <<>>)
    @@ \h02 :> Op("LD (BC), A", 1, TYPE_VOID, <<8>>, <<>>)
    @@ \h03 :> Op("INC BC", 1, TYPE_VOID, <<8>>, <<>>)
    @@ \h04 :> Op("INC B", 1, TYPE_VOID, <<4>>, <<"Z", "0", "H">>)
    @@ \h05 :> Op("DEC B", 1, TYPE_VOID, <<4>>, <<"Z", "1", "H">>)
    @@ \h06 :> Op("LD B, d8", 2, TYPE_D8, <<8>>, <<>>)
    @@ \h07 :> Op("RLCA", 1, TYPE_VOID, <<4>>, <<"0", "0", "0", "C">>)
    @@ \h08 :> Op("LD (a16), SP", 3, TYPE_A16, <<20>>, <<>>)
    @@ \h09 :> Op("ADD HL, BC", 1, TYPE_VOID, <<8>>, <<"None", "0", "H", "C">>)
    @@ \h0a :> Op("LD A, (BC)", 1, TYPE_VOID, <<8>>, <<>>)
    @@ \h0b :> Op("DEC BC", 1, TYPE_VOID, <<8>>, <<>>)
    @@ \h0c :> Op("INC C", 1, TYPE_VOID, <<4>>, <<"Z", "0", "H">>)
    @@ \h0d :> Op("DEC C", 1, TYPE_VOID, <<4>>, <<"Z", "1", "H">>)
    @@ \h0e :> Op("LD C, d8", 2, TYPE_D8, <<8>>, <<>>)
    @@ \h0f :> Op("RRCA", 1, TYPE_VOID, <<4>>, <<"0", "0", "0", "C">>)
    @@ \h10 :> Op("STOP", 2, TYPE_VOID, <<4>>, <<>>)
    @@ \h11 :> Op("LD DE, d16", 3, TYPE_D16, <<12>>, <<>>)
    @@ \h12 :> Op("LD (DE), A", 1, TYPE_VOID, <<8>>, <<>>)
    @@ \h13 :> Op("INC DE", 1, TYPE_VOID, <<8>>, <<>>)
    @@ \h14 :> Op("INC D", 1, TYPE_VOID, <<4>>, <<"Z", "0", "H">>)
    @@ \h15 :> Op("DEC D", 1, TYPE_VOID, <<4>>, <<"Z", "1", "H">>)
    @@ \h16 :> Op("LD D, d8", 2, TYPE_D8, <<8>>, <<>>)
    @@ \h17 :> Op("RLA", 1, TYPE_VOID, <<4>>, <<>>)
    @@ \h18 :> Op("JR r8", 2, TYPE_R8, <<12>>, <<>>)
    @@ \h19 :> Op("ADD HL, DE", 1, TYPE_VOID, <<8>>, <<"None", "0", "H", "C">>)
    @@ \h1a :> Op("LD A, (DE)", 1, TYPE_VOID, <<18>>, <<>>)
    @@ \h1b :> Op("DEC DE", 1, TYPE_VOID, <<8>>, <<>>)
    @@ \h1c :> Op("INC E", 1, TYPE_VOID, <<4>>, <<"Z", "0", "H">>)
    @@ \h1d :> Op("DEC E", 1, TYPE_VOID, <<4>>, <<"Z", "1", "H">>)
    @@ \h1e :> Op("LD E, d8", 2, TYPE_D8, <<8>>, <<>>)
    @@ \h1f :> Op("RRA", 1, TYPE_VOID, <<4>>, <<"0", "0", "0", "C">>)
    @@ \h20 :> Op("JR NZ, r8", 2, TYPE_R8, <<12, 8>>, <<>>)
    @@ \h21 :> Op("LD HL, d16", 3, TYPE_D16, <<12>>, <<>>)
    @@ \h22 :> Op("LD (HL+), A", 1, TYPE_VOID, <<8>>, <<>>)
    @@ \h23 :> Op("INC HL", 1, TYPE_VOID, <<8>>, <<>>)
    @@ \h24 :> Op("INC H", 1, TYPE_VOID, <<4>>, <<"Z", "0", "H">>)
    @@ \h25 :> Op("DEC H", 1, TYPE_VOID, <<4>>, <<"Z", "1", "H">>)
    @@ \h26 :> Op("LD H, d8", 2, TYPE_D8, <<8>>, <<>>)
    @@ \h27 :> Op("DAA", 1, TYPE_VOID, <<4>>, <<"Z", "None", "0", "C">>)
    @@ \h28 :> Op("JR Z, r8", 2, TYPE_VOID, <<12, 8>>, <<>>)
    @@ \h29 :> Op("ADD HL, HL", 1, TYPE_VOID, <<8>>, <<"None", "0", "H", "C">>)
    @@ \h2a :> Op("LD A, (HL+)", 1, TYPE_VOID, <<8>>, <<>>)
    @@ \h2b :> Op("DEC HL", 1, TYPE_VOID, <<8>>, <<>>)
    @@ \h2c :> Op("INC L", 1, TYPE_VOID, <<4>>, <<"Z", "0", "H">>)
    @@ \h2d :> Op("DEC L", 1, TYPE_VOID, <<4>>, <<"Z", "1", "H">>)
    @@ \h2e :> Op("LD L, d8", 2, TYPE_D8, <<8>>, <<>>)
    @@ \h2f :> Op("CPL", 1, TYPE_VOID, <<4>>, <<"None", "1", "1", "None">>)
    @@ \h30 :> Op("JR NC, r8", 2, TYPE_R8, <<12, 8>>, <<>>)
    @@ \h31 :> Op("LD SP, d16", 3, TYPE_D16, <<12>>, <<>>)
    @@ \h32 :> Op("LD (HL-), A", 1, TYPE_VOID, <<8>>, <<>>)
    @@ \h33 :> Op("INC SP", 1, TYPE_VOID, <<8>>, <<>>)
    @@ \h34 :> Op("INC (HL)", 1, TYPE_VOID, <<12>>, <<"Z", "0", "H">>)
    @@ \h35 :> Op("DEC (HL)", 1, TYPE_VOID, <<12>>, <<"Z", "1", "H">>)
    @@ \h36 :> Op("LD (HL), d8", 2, TYPE_D8, <<12>>, <<>>)
    @@ \h37 :> Op("SCF", 1, TYPE_VOID, <<4>>, <<"None", "0", "0", "1">>)
    @@ \h38 :> Op("JR C, r8", 2, TYPE_R8, <<12, 8>>, <<>>)
    @@ \h3c :> Op("INC A", 1, TYPE_VOID, <<4>>, <<"Z", "0", "H">>)
    @@ \h3d :> Op("DEC A", 1, TYPE_VOID, <<4>>, <<"Z", "1", "H">>)
    @@ \h3e :> Op("LD A, d8", 2, TYPE_D8, <<8>>, <<>>)
    @@ \h3f :> Op("CCF", 1, TYPE_VOID, <<4>>, <<"None", "0", "0", "C">>)
    @@ \h40 :> Op("LD B, B", 1, TYPE_VOID, <<4>>, <<>>)
    @@ \h41 :> Op("LD B, C", 1, TYPE_VOID, <<4>>, <<>>)
    @@ \h42 :> Op("LD B, D", 1, TYPE_VOID, <<4>>, <<>>)
    @@ \h43 :> Op("LD B, E", 1, TYPE_VOID, <<4>>, <<>>)
    @@ \h44 :> Op("LD B, H", 1, TYPE_VOID, <<4>>, <<>>)
    @@ \h45 :> Op("LD B, L", 1, TYPE_VOID, <<4>>, <<>>)
    @@ \h46 :> Op("LD B, (HL)", 1, TYPE_VOID, <<8>>, <<>>)
    @@ \h47 :> Op("LD B, A", 1, TYPE_VOID, <<4>>, <<>>)
    @@ \h48 :> Op("LD C, B", 1, TYPE_VOID, <<4>>, <<>>)
    @@ \h49 :> Op("LD C, C", 1, TYPE_VOID, <<4>>, <<>>)
    @@ \h4a :> Op("LD C, D", 1, TYPE_VOID, <<4>>, <<>>)
    @@ \h4b :> Op("LD C, E", 1, TYPE_VOID, <<4>>, <<>>)
    @@ \h4c :> Op("LD C, H", 1, TYPE_VOID, <<4>>, <<>>)
    @@ \h4d :> Op("LD C, L", 1, TYPE_VOID, <<4>>, <<>>)
    @@ \h4e :> Op("LD C, (HL)", 1, TYPE_VOID, <<8>>, <<>>)
    @@ \h4f :> Op("LD C, A", 1, TYPE_VOID, <<4>>, <<>>)
    @@ \h50 :> Op("LD D, B", 1, TYPE_VOID, <<4>>, <<>>)
    @@ \h51 :> Op("LD D, C", 1, TYPE_VOID, <<4>>, <<>>)
    @@ \h52 :> Op("LD D, D", 1, TYPE_VOID, <<4>>, <<>>)
    @@ \h53 :> Op("LD D, E", 1, TYPE_VOID, <<4>>, <<>>)
    @@ \h54 :> Op("LD D, H", 1, TYPE_VOID, <<4>>, <<>>)
    @@ \h55 :> Op("LD D, L", 1, TYPE_VOID, <<4>>, <<>>)
    @@ \h56 :> Op("LD D, (HL)", 1, TYPE_VOID, <<8>>, <<>>)
    @@ \h57 :> Op("LD D, A", 1, TYPE_VOID, <<4>>, <<>>)
    @@ \h58 :> Op("LD E, B", 1, TYPE_VOID, <<4>>, <<>>)
    @@ \h59 :> Op("LD E, C", 1, TYPE_VOID, <<4>>, <<>>)
    @@ \h5a :> Op("LD E, D", 1, TYPE_VOID, <<4>>, <<>>)
    @@ \h5b :> Op("LD E, E", 1, TYPE_VOID, <<4>>, <<>>)
    @@ \h5c :> Op("LD E, H", 1, TYPE_VOID, <<4>>, <<>>)
    @@ \h5d :> Op("LD E, L", 1, TYPE_VOID, <<4>>, <<>>)
    @@ \h5e :> Op("LD E, (HL)", 1, TYPE_VOID, <<8>>, <<>>)
    @@ \h5f :> Op("LD E, A", 1, TYPE_VOID, <<4>>, <<>>)
    @@ \h60 :> Op("LD H, B", 1, TYPE_VOID, <<4>>, <<>>)
    @@ \h61 :> Op("LD H, C", 1, TYPE_VOID, <<4>>, <<>>)
    @@ \h62 :> Op("LD H, D", 1, TYPE_VOID, <<4>>, <<>>)
    @@ \h63 :> Op("LD H, E", 1, TYPE_VOID, <<4>>, <<>>)
    @@ \h64 :> Op("LD H, H", 1, TYPE_VOID, <<4>>, <<>>)
    @@ \h65 :> Op("LD H, L", 1, TYPE_VOID, <<4>>, <<>>)
    @@ \h66 :> Op("LD H, (HL)", 1, TYPE_VOID, <<8>>, <<>>)
    @@ \h67 :> Op("LD H, A", 1, TYPE_VOID, <<4>>, <<>>)
    @@ \h68 :> Op("LD L, B", 1, TYPE_VOID, <<4>>, <<>>)
    @@ \h69 :> Op("LD L, C", 1, TYPE_VOID, <<4>>, <<>>)
    @@ \h6a :> Op("LD L, D", 1, TYPE_VOID, <<4>>, <<>>)
    @@ \h6b :> Op("LD L, E", 1, TYPE_VOID, <<4>>, <<>>)
    @@ \h6c :> Op("LD L, H", 1, TYPE_VOID, <<4>>, <<>>)
    @@ \h6d :> Op("LD L, L", 1, TYPE_VOID, <<4>>, <<>>)
    @@ \h6e :> Op("LD L, (HL)", 1, TYPE_VOID, <<8>>, <<>>)
    @@ \h6f :> Op("LD L, A", 1, TYPE_VOID, <<4>>, <<>>)
    @@ \h70 :> Op("LD (HL), B", 1, TYPE_VOID, <<8>>, <<>>)
    @@ \h71 :> Op("LD (HL), C", 1, TYPE_VOID, <<8>>, <<>>)
    @@ \h72 :> Op("LD (HL), D", 1, TYPE_VOID, <<8>>, <<>>)
    @@ \h73 :> Op("LD (HL), E", 1, TYPE_VOID, <<8>>, <<>>)
    @@ \h74 :> Op("LD (HL), H", 1, TYPE_VOID, <<8>>, <<>>)
    @@ \h75 :> Op("LD (HL), L", 1, TYPE_VOID, <<8>>, <<>>)
    @@ \h76 :> Op("HALT", 1, TYPE_VOID, <<4>>, <<>>)
    @@ \h77 :> Op("LD (HL), A", 1, TYPE_VOID, <<8>>, <<>>)
    @@ \h78 :> Op("LD A, B", 1, TYPE_VOID, <<4>>, <<>>)
    @@ \h79 :> Op("LD A, C", 1, TYPE_VOID, <<4>>, <<>>)
    @@ \h7a :> Op("LD A, B", 1, TYPE_VOID, <<4>>, <<>>)
    @@ \h7b :> Op("LD A, E", 1, TYPE_VOID, <<4>>, <<>>)
    @@ \h7c :> Op("LD A, H", 1, TYPE_VOID, <<4>>, <<>>)
    @@ \h7d :> Op("LD A, L", 1, TYPE_VOID, <<4>>, <<>>)
    @@ \h7e :> Op("LD A, (HL)", 1, TYPE_VOID, <<8>>, <<>>)
    @@ \h7f :> Op("LD A, A", 1, TYPE_VOID, <<4>>, <<>>)
    @@ \h80 :> Op("ADD A, B", 1, TYPE_VOID, <<4>>, <<"Z", "0", "H", "C">>)
    @@ \h81 :> Op("ADD A, C", 1, TYPE_VOID, <<4>>, <<"Z", "0", "H", "C">>)
    @@ \h82 :> Op("ADD A, D", 1, TYPE_VOID, <<4>>, <<"Z", "0", "H", "C">>)
    @@ \h83 :> Op("ADD A, E", 1, TYPE_VOID, <<4>>, <<"Z", "0", "H", "C">>)
    @@ \h84 :> Op("ADD A, H", 1, TYPE_VOID, <<4>>, <<"Z", "0", "H", "C">>)
    @@ \h85 :> Op("ADD A, L", 1, TYPE_VOID, <<4>>, <<"Z", "0", "H", "C">>)
    @@ \h86 :> Op("ADD A, (HL)", 1, TYPE_VOID, <<8>>, <<"Z", "0", "H", "C">>)
    @@ \h87 :> Op("ADC A, A", 1, TYPE_VOID, <<4>>, <<"Z", "0", "H", "C">>)
    @@ \h88 :> Op("ADC A, B", 1, TYPE_VOID, <<4>>, <<"Z", "0", "H", "C">>)
    @@ \h89 :> Op("ADC A, C", 1, TYPE_VOID, <<4>>, <<"Z", "0", "H", "C">>)
    @@ \h8a :> Op("ADC A, D", 1, TYPE_VOID, <<4>>, <<"Z", "0", "H", "C">>)
    @@ \h8b :> Op("ADC A, E", 1, TYPE_VOID, <<4>>, <<"Z", "0", "H", "C">>)
    @@ \h8c :> Op("ADC A, H", 1, TYPE_VOID, <<4>>, <<"Z", "0", "H", "C">>)
    @@ \h8d :> Op("ADC A, L", 1, TYPE_VOID, <<4>>, <<"Z", "0", "H", "C">>)
    @@ \h8e :> Op("ADC A, (HL)", 1, TYPE_VOID, <<8>>, <<"Z", "0", "H", "C">>)
    @@ \h8f :> Op("ADC A, A", 1, TYPE_VOID, <<4>>, <<"Z", "0", "H", "C">>)
    @@ \h90 :> Op("SUB B", 1, TYPE_VOID, <<4>>, <<"Z", "1", "H", "C">>)
    @@ \h91 :> Op("SUB C", 1, TYPE_VOID, <<4>>, <<"Z", "1", "H", "C">>)
    @@ \h92 :> Op("SUB D", 1, TYPE_VOID, <<4>>, <<"Z", "1", "H", "C">>)
    @@ \h93 :> Op("SUB E", 1, TYPE_VOID, <<4>>, <<"Z", "1", "H", "C">>)
    @@ \h94 :> Op("SUB H", 1, TYPE_VOID, <<4>>, <<"Z", "1", "H", "C">>)
    @@ \h95 :> Op("SUB L", 1, TYPE_VOID, <<4>>, <<"Z", "1", "H", "C">>)
    @@ \h96 :> Op("SUB (HL)", 1, TYPE_VOID, <<8>>, <<"Z", "1", "H", "C">>)
    @@ \h97 :> Op("SUB A", 1, TYPE_VOID, <<4>>, <<"Z", "1", "H", "C">>)
    @@ \h98 :> Op("SBC A, B", 1, TYPE_VOID, <<4>>, <<"Z", "1", "H", "C">>)
    @@ \h99 :> Op("SBC A, C", 1, TYPE_VOID, <<4>>, <<"Z", "1", "H", "C">>)
    @@ \h9a :> Op("SBC A, D", 1, TYPE_VOID, <<4>>, <<"Z", "1", "H", "C">>)
    @@ \h9b :> Op("SBC A, E", 1, TYPE_VOID, <<4>>, <<"Z", "1", "H", "C">>)
    @@ \h9c :> Op("SBC A, H", 1, TYPE_VOID, <<4>>, <<"Z", "1", "H", "C">>)
    @@ \h9d :> Op("SBC A, L", 1, TYPE_VOID, <<4>>, <<"Z", "1", "H", "C">>)
    @@ \h9e :> Op("SBC A, (HL)", 1, TYPE_VOID, <<8>>, <<"Z", "1", "H", "C">>)
    @@ \h9f :> Op("SBC A, A", 1, TYPE_VOID, <<4>>, <<"Z", "1", "H", "C">>)
    @@ \ha0 :> Op("AND B", 1, TYPE_VOID, <<4>>, <<"Z", "0", "1", "0">>)
    @@ \ha1 :> Op("AND C", 1, TYPE_VOID, <<4>>, <<"Z", "0", "1", "0">>)
    @@ \ha2 :> Op("AND D", 1, TYPE_VOID, <<4>>, <<"Z", "0", "1", "0">>)
    @@ \ha3 :> Op("AND E", 1, TYPE_VOID, <<4>>, <<"Z", "0", "1", "0">>)
    @@ \ha4 :> Op("AND H", 1, TYPE_VOID, <<4>>, <<"Z", "0", "1", "0">>)
    @@ \ha5 :> Op("AND L", 1, TYPE_VOID, <<4>>, <<"Z", "0", "1", "0">>)
    @@ \ha6 :> Op("AND (HL)", 1, TYPE_VOID, <<8>>, <<"Z", "0", "1", "0">>)
    @@ \ha7 :> Op("AND A", 1, TYPE_VOID, <<4>>, <<"Z", "0", "1", "0">>)
    @@ \ha8 :> Op("XOR B", 1, TYPE_VOID, <<4>>, <<"Z", "0", "0", "0">>)
    @@ \ha9 :> Op("XOR C", 1, TYPE_VOID, <<4>>, <<"Z", "0", "0", "0">>)
    @@ \haa :> Op("XOR D", 1, TYPE_VOID, <<4>>, <<"Z", "0", "0", "0">>)
    @@ \hab :> Op("XOR E", 1, TYPE_VOID, <<4>>, <<"Z", "0", "0", "0">>)
    @@ \hac :> Op("XOR H", 1, TYPE_VOID, <<4>>, <<"Z", "0", "0", "0">>)
    @@ \had :> Op("XOR L", 1, TYPE_VOID, <<4>>, <<"Z", "0", "0", "0">>)
    @@ \hae :> Op("XOR (HL)", 1, TYPE_VOID, <<8>>, <<"Z", "0", "0", "0">>)
    @@ \haf :> Op("XOR A", 1, TYPE_VOID, <<4>>, <<"Z", "0", "0", "0">>)
    @@ \hb0 :> Op("OR B", 1, TYPE_VOID, <<4>>, <<"Z", "0", "0", "0">>)
    @@ \hb1 :> Op("OR C", 1, TYPE_VOID, <<4>>, <<"Z", "0", "0", "0">>)
    @@ \hb2 :> Op("OR D", 1, TYPE_VOID, <<4>>, <<"Z", "0", "0", "0">>)
    @@ \hb3 :> Op("OR E", 1, TYPE_VOID, <<4>>, <<"Z", "0", "0", "0">>)
    @@ \hb4 :> Op("OR H", 1, TYPE_VOID, <<4>>, <<"Z", "0", "0", "0">>)
    @@ \hb5 :> Op("OR L", 1, TYPE_VOID, <<4>>, <<"Z", "0", "0", "0">>)
    @@ \hb6 :> Op("OR (HL)", 1, TYPE_VOID, <<8>>, <<"Z", "0", "0", "0">>)
    @@ \hb7 :> Op("OR A", 1, TYPE_VOID, <<4>>, <<"Z", "0", "0", "0">>)
    @@ \hb8 :> Op("CP B", 1, TYPE_VOID, <<4>>, <<"Z", "1", "H", "C">>)
    @@ \hb9 :> Op("CP C", 1, TYPE_VOID, <<4>>, <<"Z", "1", "H", "C">>)
    @@ \hba :> Op("CP D", 1, TYPE_VOID, <<4>>, <<"Z", "1", "H", "C">>)
    @@ \hbb :> Op("CP E", 1, TYPE_VOID, <<4>>, <<"Z", "1", "H", "C">>)
    @@ \hbc :> Op("CP H", 1, TYPE_VOID, <<4>>, <<"Z", "1", "H", "C">>)
    @@ \hbd :> Op("CP L", 1, TYPE_VOID, <<4>>, <<"Z", "1", "H", "C">>)
    @@ \hbe :> Op("CP (HL)", 1, TYPE_VOID, <<8>>, <<"Z", "1", "H", "C">>)
    @@ \hbf :> Op("CP A", 1, TYPE_VOID, <<4>>, <<"Z", "1", "H", "C">>)
    @@ \hc0 :> Op("RET NZ", 1, TYPE_VOID, <<20, 8>>, <<>>)
    @@ \hc1 :> Op("POP BC", 1, TYPE_VOID, <<12>>, <<>>)
    @@ \hc2 :> Op("JP NZ, a16", 3, TYPE_A16, <<16, 12>>, <<>>)
    @@ \hc3 :> Op("JP a16", 3, TYPE_A16, <<16>>, <<>>)
    @@ \hc4 :> Op("CALL NZ, a16", 3, TYPE_A16, <<24, 12>>, <<>>)
    @@ \hc5 :> Op("PUSH BC", 1, TYPE_VOID, <<16>>, <<>>)
    @@ \hc6 :> Op("ADD A, d8", 2, TYPE_VOID, <<8>>, <<"Z", "0", "H", "C">>)
    @@ \hc7 :> Op("RST 00H", 1, TYPE_VOID, <<16>>, <<>>)
    @@ \hc8 :> Op("RET Z", 1, TYPE_VOID, <<20, 8>>, <<>>)
    @@ \hc9 :> Op("RET", 1, TYPE_VOID, <<16>>, <<>>)
    @@ \hca :> Op("JP Z, a16", 3, TYPE_A16, <<16, 12>>, <<>>)
    @@ \hcb :> Op("PREFIX CB", 1, TYPE_VOID, <<4>>, <<>>)
    @@ \hcc :> Op("CALL Z, a16", 3, TYPE_A16, <<24, 12>>, <<>>)
    @@ \hcd :> Op("CALL a16", 3, TYPE_A16, <<24>>, <<>>)
    @@ \hce :> Op("ADC A, d8", 2, TYPE_D8, <<8>>, <<"Z", "0", "H", "C">>)
    @@ \hcf :> Op("RST 08H", 1, TYPE_VOID, <<16>>, <<>>)
    @@ \hd0 :> Op("RET NC", 1, TYPE_VOID, <<20, 8>>, <<>>)
    @@ \hd1 :> Op("POP DE", 1, TYPE_VOID, <<12>>, <<>>)
    @@ \hd2 :> Op("JP NC, a16", 1, TYPE_A16, <<16, 12>>, <<>>)
    @@ \hd3 :> Op("-", 1, TYPE_VOID, <<0>>, <<>>)
    @@ \hd4 :> Op("CALL NC, a16", 3, TYPE_A16, <<24, 12>>, <<>>)
    @@ \hd5 :> Op("PUSH DE", 1, TYPE_VOID, <<16>>, <<>>)
    @@ \hd6 :> Op("SUB d8", 2, TYPE_D8, <<8>>, <<"Z", "1", "H", "C">>)
    @@ \hd7 :> Op("RST 10H", 1, TYPE_VOID, <<16>>, <<>>)
    @@ \hd8 :> Op("RET C", 1, TYPE_VOID, <<20, 8>>, <<>>)
    @@ \hd9 :> Op("RETI", 1, TYPE_VOID, <<16>>, <<>>)
    @@ \hda :> Op("JP C, a16", 3, TYPE_A16, <<20, 12>>, <<>>)
    @@ \hdb :> Op("-", 1, TYPE_VOID, <<0>>, <<>>)
    @@ \hdc :> Op("CALL C, a16", 3, TYPE_A16, <<24, 12>>, <<>>)
    @@ \hdd :> Op("-", 1, TYPE_VOID, <<0>>, <<>>)
    @@ \hde :> Op("SBC A, d8", 2, TYPE_D8, <<8>>, <<"Z", "1", "H", "C">>)
    @@ \hdf :> Op("RST 18H", 1, TYPE_VOID, <<16>>, <<>>)
    @@ \he0 :> Op("LD (a8), A", 2, TYPE_A8, <<12>>, <<>>)
    @@ \he1 :> Op("POP HL", 1, TYPE_VOID, <<12>>, <<>>)
    @@ \he2 :> Op("LD ($ff00+C), A", 1, TYPE_VOID, <<8>>, <<>>)
    @@ \he3 :> Op("-", 1, TYPE_VOID, <<0>>, <<>>)
    @@ \he4 :> Op("-", 1, TYPE_VOID, <<0>>, <<>>)
    @@ \he5 :> Op("PUSH HL", 1, TYPE_VOID, <<16>>, <<>>)
    @@ \he6 :> Op("AND d8", 2, TYPE_D8, <<8>>, <<"Z", "0", "1", "0">>)
    @@ \he7 :> Op("RST 20H", 1, TYPE_VOID, <<16>>, <<>>)
    @@ \he8 :> Op("ADD SP, r8", 2, TYPE_R8, <<16>>, <<"0", "0", "H", "C">>)
    @@ \he9 :> Op("JP (HL)", 1, TYPE_VOID, <<4>>, <<>>)
    @@ \hea :> Op("LD (a16), A", 3, TYPE_A16, <<16>>, <<>>)
    @@ \heb :> Op("-", 1, TYPE_VOID, <<0>>, <<>>)
    @@ \hec :> Op("-", 1, TYPE_VOID, <<0>>, <<>>)
    @@ \hed :> Op("-", 1, TYPE_VOID, <<0>>, <<>>)
    @@ \hee :> Op("XOR d8", 2, TYPE_R8, <<8>>, <<"Z", "0", "0", "0">>)
    @@ \hef :> Op("RST 28H", 1, TYPE_VOID, <<16>>, <<>>)
    @@ \hf0 :> Op("LDH A, (a8)", 2, TYPE_A8, <<12>>, <<>>)
    @@ \hf1 :> Op("POP AF", 1, TYPE_VOID, <<12>>, <<"Z", "N", "H", "C">>)
    @@ \hf2 :> Op("LD A, (C)", 2, TYPE_VOID, <<8>>, <<>>)
    @@ \hf3 :> Op("DI", 1, TYPE_VOID, <<4>>, <<>>)
    @@ \hf4 :> Op("-", 1, TYPE_VOID, <<0>>, <<>>)
    @@ \hf5 :> Op("PUSH AF", 1, TYPE_VOID, <<16>>, <<>>)
    @@ \hf6 :> Op("OR d8", 2, TYPE_D8, <<8>>, <<>>)
    @@ \hf7 :> Op("RST 30H", 1, TYPE_VOID, <<16>>, <<>>)
    @@ \hf8 :> Op("LD HL, SP+r8", 2, TYPE_R8, <<12>>, <<"0", "0", "H", "C">>)
    @@ \hf9 :> Op("LD SP, HL", 1, TYPE_VOID, <<8>>, <<>>)
    @@ \hfa :> Op("LD A, (a16)", 3, TYPE_A16, <<16>>, <<>>)
    @@ \hfb :> Op("EI", 1, TYPE_VOID, <<4>>, <<>>)
    @@ \hfc :> Op("-", 1, TYPE_VOID, <<0>>, <<>>)
    @@ \hfd :> Op("-", 1, TYPE_VOID, <<0>>, <<>>)
    @@ \hfe :> Op("CP d8", 2, TYPE_D8, <<8>>, <<"Z", "1", "H", "C">>)
    @@ \hff :> Op("RST 38H", 1, TYPE_VOID, <<16>>, <<>>)

(***************************************************************************)
(* cpu.py: the register file.                                              *)
(***************************************************************************)
PC == 0
SP == 2
AF == 4
BC == 6
DE == 8
HL == 10
A == 4
F == 5
B == 6
C == 7
D == 8
E == 9
H == 10
L == 11

\* Register8.__get__ and __set__.
Reg8(gb, index) == gb.cpu.registers[index]

\* A setter that stores the value as it comes, without `% 0x100`.
SetReg8_unreduced(gb, index, value) ==
    IF gb.raised # NoError THEN gb
    ELSE IF value = None THEN Raise(gb, TypeError)
    ELSE [gb EXCEPT !.cpu.registers[index] = value]

SetReg8(gb, index, value) ==
    IF gb.raised # NoError THEN gb
    ELSE IF value = None THEN Raise(gb, TypeError)
    ELSE [gb EXCEPT !.cpu.registers[index] = value % \h100]

\* Register16.__get__ and __set__.
Reg16(gb, index) == get16be(gb.cpu.registers, index)

SetReg16(gb, index, value) ==
    IF gb.raised # NoError THEN gb
    ELSE IF value = None THEN Raise(gb, TypeError)
    ELSE [gb EXCEPT !.cpu.registers = set16be(gb.cpu.registers, index, value)]

\* Python truth of a flag value (a bool or an int).
Truthy(value) == value # 0

Bool(b) == IF b THEN 1 ELSE 0

\* The flag properties and their setters.
Z_flag(gb) == ShiftR(BitAnd(Reg8(gb, F), 128), 7)

N_flag(gb) == ShiftR(BitAnd(Reg8(gb, F), 64), 6)

H_flag(gb) == ShiftR(BitAnd(Reg8(gb, F), 32), 5)

C_flag(gb) == ShiftR(BitAnd(Reg8(gb, F), 16), 4)

SetZ_flag(gb, value) ==
    IF Truthy(value) THEN SetReg8(gb, F, BitOr(Reg8(gb, F), ShiftL(1, 7)))
    ELSE SetReg8(gb, F, BitAnd(Reg8(gb, F), 127))

SetN_flag(gb, value) ==
    IF Truthy(value) THEN SetReg8(gb, F, BitOr(Reg8(gb, F), ShiftL(1, 6)))
    ELSE SetReg8(gb, F, BitAnd(Reg8(gb, F), 191))

SetH_flag(gb, value) ==
    IF Truthy(value) THEN SetReg8(gb, F, BitOr(Reg8(gb, F), ShiftL(1, 5)))
    ELSE SetReg8(gb, F, BitAnd(Reg8(gb, F), 223))

SetC_flag(gb, value) ==
    IF Truthy(value) THEN SetReg8(gb, F, BitOr(Reg8(gb, F), ShiftL(1, 4)))
    ELSE SetReg8(gb, F, BitAnd(Reg8(gb, F), 239))

(***************************************************************************)
(* cpu.py: bus access from the CPU, stack and jumps.                       *)
(***************************************************************************)
\* x = self.memory[address], then K(x); an exception of the read ends it.
Load(gb, address, K(_)) ==
    LET r == Getitem(gb, address)
    IN IF gb.raised # NoError THEN gb
       ELSE IF r[1] # NoError THEN Raise(gb, r[1])
       ELSE K(r[2])

\* x = self.memory.get16(address), then K(x).
Load16(gb, address, K(_)) ==
    LET r == get16(gb, address)
    IN IF gb.raised # NoError THEN gb
       ELSE IF r[1] # NoError THEN Raise(gb, r[1])
       ELSE K(r[2])

push(gb, nn) ==
    LET g1 == set16(gb, Reg16(gb, SP), nn)
    IN SetReg16(g1, SP, Reg16(g1, SP) - 2)

\* CPU.pop: <<machine after SP += 2, what get16(SP) gives there>>.
pop(gb) ==
    LET g1 == SetReg16(gb, SP, Reg16(gb, SP) + 2)
    IN <<g1, get16(g1, Reg16(g1, SP))>>

\* x = self.pop(), then K(machine, x); an exception of the read ends it.
PopThen(gb, K(_, _)) ==
    LET p == pop(gb)
    IN IF p[1].raised # NoError THEN p[1]
       ELSE IF p[2][1] # NoError THEN Raise(p[1], p[2][1])
       ELSE K(p[1], p[2][2])

call(gb, nn) == SetReg16(push(gb, Reg16(gb, PC)), PC, nn)

ret(gb) == PopThen(gb, LAMBDA g, x: SetReg16(g, PC, x))

jmp(gb, nn) == SetReg16(gb, PC, nn)

rst(gb, nn) == Load16(gb, nn, LAMBDA x: call(gb, x))

(***************************************************************************)
(* cpu.py: fetch and decode.                                               *)
(***************************************************************************)
\* CPU.fetch: <<exception, opcode>>.
fetch(gb) == Getitem(gb, Reg16(gb, PC))

\* cycles += xcycles on two table values.
AddCycles(cycles, xcycles) ==
    IF Len(cycles) = 1 /\ Len(xcycles) = 1 THEN <<cycles[1] + xcycles[1]>>
    ELSE <<>>

\* The argument loop of CPU.decode from `offset` on: <<exception, arg, raw>>.
RECURSIVE DecodeArg(_, _, _, _, _)
DecodeArg(gb, offset, bytelen, arg, raw) ==
    IF offset >= bytelen THEN <<NoError, arg, raw>>
    ELSE LET byte == Getitem(gb, Reg16(gb, PC) + offset)
         IN IF byte[1] # NoError THEN <<byte[1], arg, raw>>
            ELSE DecodeArg(gb, offset + 1, bytelen,
                           BitOr(arg, ShiftL(byte[2], 8 * (offset - 1))),
                           Append(raw, byte[2]))

\* What CPU.decode returns, with the machine it leaves.
Decoded(gb, opcode, bytelen, cycles, flags, arg, raw) ==
    [gb |-> gb, opcode |-> opcode, length |-> bytelen, cycles |-> cycles,
     flags |-> flags, arg |-> arg, raw |-> raw]

\* The end of CPU.decode: the arguments, then PC += bytelen.
DecodeArguments(gb, opcode, row, cycles, raw) ==
    LET bytelen == row.bytelen
        a0 == DecodeArg(gb, 1, bytelen, 0, raw)
        a1 == IF row.type = TYPE_R8 THEN u8_to_signed(a0[2]) ELSE a0[2]
        a2 == IF opcode \in add_0xff00_opcodes THEN a1 + \hff00 ELSE a1
        failed(exception) ==
            Decoded(Raise(gb, exception), opcode, bytelen, cycles, row.flags,
                    None, raw)
    IN IF gb.raised # NoError THEN failed(gb.raised)
       ELSE IF ~(bytelen > 1)
       THEN Decoded(SetReg16(gb, PC, Reg16(gb, PC) + bytelen), opcode, bytelen,
                    cycles, row.flags, None, raw)
       ELSE IF a0[1] # NoError THEN failed(a0[1])
       ELSE IF row.type = TYPE_R8 /\ ~(0 <= a0[2] /\ a0[2] <= \hff)
       THEN failed(AssertionError)
       ELSE Decoded(SetReg16(gb, PC, Reg16(gb, PC) + bytelen), opcode, bytelen,
                    cycles, row.flags, a2, a0[3])

\* CPU.decode.
decode(gb, opcode) ==
    LET row == opcodes[opcode]
        g1 == SetReg16(gb, PC, Reg16(gb, PC) + row.bytelen)
        next == fetch(g1)
        failed(g, exception) ==
            Decoded(Raise(g, exception), opcode, 0, <<>>, <<>>, None, <<opcode>>)
    IN IF opcode \notin DOMAIN opcodes THEN failed(gb, OpcodeError)
       ELSE IF opcode = \hcb
       THEN IF next[1] # NoError THEN failed(g1, next[1])
            ELSE IF next[2] \notin DOMAIN extended_opcodes
            THEN failed(g1, KeyError)
            ELSE DecodeArguments(g1, next[2], extended_opcodes[next[2]],
                                 AddCycles(row.cycles,
                                           extended_opcodes[next[2]].cycles),
                                 <<opcode, next[2]>>)
       ELSE IF opcode = \h10
       THEN IF next[1] # NoError THEN failed(g1, next[1])
            ELSE DecodeArguments(g1, next[2], opcodes[\h10],
                                 AddCycles(row.cycles, opcodes[\h10].cycles),
                                 <<opcode, next[2]>>)
       ELSE DecodeArguments(gb, opcode, row, row.cycles, <<opcode>>)

(***************************************************************************)
(* cpu.py: CPU.execute.  Each arm is the statement list of the source arm, *)
(* g0, g1, ... being the machine after each statement.                     *)
(***************************************************************************)
\* Evaluating self.memory[address] inside an expression: the read may raise.
Touch(gb, address) == Load(gb, address, LAMBDA x: gb)

\* Z = value, N = value, H = value or C = value on the locals of execute.
SetLocal(gb, local, value) ==
    CASE local = "Z" -> [gb EXCEPT !.Z = value]
      [] local = "N" -> [gb EXCEPT !.N = value]
      [] local = "H" -> [gb EXCEPT !.H = value]
      [] local = "C" -> [gb EXCEPT !.C = value]

\* cycles = cycles[index].
PickCycles(gb, index) ==
    IF gb.raised # NoError THEN gb
    ELSE IF Len(gb.cycles) = 1 THEN Raise(gb, TypeError)
    ELSE IF index + 1 \in DOMAIN gb.cycles
         THEN [gb EXCEPT !.cycles = <<gb.cycles[index + 1]>>]
         ELSE Raise(gb, IndexError)

\* An assignment to IME that is lost.
SetIME_ignored(gb, value) == gb

\* self.IME = value.
SetIME(gb, value) ==
    IF gb.raised # NoError THEN gb ELSE [gb EXCEPT !.cpu.IME = value]

\* CPU.execute, raw[0] == 0xcb (lines 303-345).
ExecuteCB(g0, opcode, arg) ==
    CASE opcode = \h11 ->  \* RL C
           LET g1 == SetLocal(g0, "C", ShiftR(BitAnd(Reg8(g0, C), ShiftL(1, 7)), 7))
               g2 == SetReg8(g1, C, BitAnd(ShiftL(Reg8(g1, C), 1), 255))
               g3 == SetReg8(g2, C, BitOr(Reg8(g2, C), C_flag(g2)))
               g4 == SetLocal(g3, "Z", Bool((Reg8(g3, C) = 0)))
           IN g4
      [] opcode = \h60 ->  \* BIT 4, B
           LET g1 == SetReg8(g0, B, BitOr(Reg8(g0, B), 8))
               g2 == SetLocal(g1, "Z", Bool((BitAnd(Reg8(g1, B), ShiftL(1, 4)) = 0)))
           IN g2
      [] opcode = \h6b ->  \* BIT 5, E
           SetLocal(g0, "Z", Bool((BitAnd(Reg8(g0, E), ShiftL(1, 5)) = 0)))
      [] opcode = \h7c ->  \* BIT 7, H
           SetLocal(g0, "Z", Bool((BitAnd(Reg8(g0, H), ShiftL(1, 7)) = 0)))
      [] opcode = \h21 ->  \* SLA C
           LET g1 == SetLocal(g0, "C", ShiftR(BitAnd(Reg8(g0, C), ShiftL(1, 7)), 7))
               g2 == SetReg8(g1, C, ShiftL(Reg8(g1, C), 1))
               g3 == SetLocal(g2, "Z", Bool((Reg8(g2, C) = 0)))
           IN g3
      [] opcode = \h30 ->  \* SWAP B
           LET g1 == SetReg8(g0, B, swap8(Reg8(g0, B)))
               g2 == SetLocal(g1, "Z", Bool((Reg8(g1, B) = 0)))
           IN g2
      [] opcode = \h31 ->  \* SWAP C
           LET g1 == SetReg8(g0, C, swap8(Reg8(g0, C)))
               g2 == SetLocal(g1, "Z", Bool((Reg8(g1, C) = 0)))
           IN g2
      [] opcode = \h32 ->  \* SWAP D
           LET g1 == SetReg8(g0, D, swap8(Reg8(g0, D)))
               g2 == SetLocal(g1, "Z", Bool((Reg8(g1, D) = 0)))
           IN g2
      [] opcode = \h33 ->  \* SWAP E
           LET g1 == SetReg8(g0, E, swap8(Reg8(g0, E)))
               g2 == SetLocal(g1, "Z", Bool((Reg8(g1, E) = 0)))
           IN g2
      [] opcode = \h34 ->  \* SWAP H
           LET g1 == SetReg8(g0, H, swap8(Reg8(g0, H)))
               g2 == SetLocal(g1, "Z", Bool((Reg8(g1, H) = 0)))
           IN g2
      [] opcode = \h35 ->  \* SWAP L
           LET g1 == SetReg8(g0, L, swap8(Reg8(g0, L)))
               g2 == SetLocal(g1, "Z", Bool((Reg8(g1, L) = 0)))
           IN g2
      [] opcode = \h36 ->  \* SWAP (HL)
           LET g1 == Touch(g0, Reg16(g0, HL))
               value == swap8(Peek(g1, Reg16(g1, HL)))
               g2 == Setitem(g1, Reg16(g1, HL), value)
               g3 == SetLocal(g2, "Z", Bool((value = 0)))
           IN g3
      [] opcode = \h37 ->  \* SWAP A
           LET g1 == SetReg8(g0, A, swap8(Reg8(g0, A)))
               g2 == SetLocal(g1, "Z", Bool((Reg8(g1, A) = 0)))
           IN g2
      [] OTHER -> Raise(g0, unknown_opcode)

\* The arm of STOP, were the instruction charged before it fails.
ExecuteStop_charged(g0, opcode, arg) ==
    CASE opcode = \h10 ->
           Raise([g0 EXCEPT !.cpu.total_cycles = @ + 4], not_implemented)
      [] OTHER -> Raise(g0, unknown_opcode)

\* CPU.execute, raw[0] == 0x10.
ExecuteStop(g0, opcode, arg) ==
    CASE opcode = \h10 ->  \* STOP
           Raise(g0, not_implemented)
      [] OTHER -> Raise(g0, unknown_opcode)

\* CPU.execute, ordinary instructions 0x00..0x3f.
Execute00_3f(g0, opcode, arg) ==
    CASE opcode = \h00 ->  \* NOP
           g0
      [] opcode = \h01 ->  \* LD BC, d16
           SetReg16(g0, BC, arg)
      [] opcode = \h02 ->  \* LD (BC), A
           Setitem(g0, Reg16(g0, BC), Reg8(g0, A))
      [] opcode = \h03 ->  \* INC BC
           SetReg16(g0, BC, (Reg16(g0, BC) + 1))
      [] opcode = \h04 ->  \* INC B
           LET g1 == SetLocal(g0, "H", Bool((BitAnd(Reg8(g0, B), 15) = 15)))
               g2 == SetReg8(g1, B, (Reg8(g1, B) + 1))
               g3 == SetLocal(g2, "Z", Bool((Reg8(g2, B) = 0)))
           IN g3
      [] opcode = \h05 ->  \* DEC B
           LET g1 == SetLocal(g0, "H", Bool(((Reg8(g0, B) % 15) = 0)))
               g2 == SetReg8(g1, B, (Reg8(g1, B) - 1))
               g3 == SetLocal(g2, "Z", Bool((Reg8(g2, B) = 0)))
           IN g3
      [] opcode = \h06 ->  \* LD B, d8
           SetReg8(g0, B, arg)
      [] opcode = \h07 ->  \* RLCA
           LET g1 == SetC_flag(g0, ShiftR(BitAnd(Reg8(g0, A), ShiftL(1, 7)), 7))
               g2 == SetReg8(g1, A, ShiftL(Reg8(g1, A), 1))
           IN g2
      [] opcode = \h08 ->  \* LD (a16), SP
           set16(g0, arg, Reg16(g0, SP))
      [] opcode = \h09 ->  \* ADD HL, BC
           LET n == (Reg16(g0, HL) + Reg16(g0, BC))
               g1 == SetLocal(g0, "C", Bool((n > 65535)))
               g2 == SetReg16(g1, HL, n)
           IN g2
      [] opcode = \h0a ->  \* LD A, (BC)
           LET g1 == Touch(g0, Reg16(g0, BC))
               g2 == SetReg8(g1, A, Peek(g1, Reg16(g1, BC)))
           IN g2
      [] opcode = \h0b ->  \* DEC BC
           SetReg16(g0, BC, (Reg16(g0, BC) - 1))
      [] opcode = \h0c ->  \* INC C
           LET g1 == SetLocal(g0, "H", Bool((BitAnd(Reg8(g0, C), 15) = 15)))
               g2 == SetReg8(g1, C, (Reg8(g1, C) + 1))
               g3 == SetLocal(g2, "Z", Bool((Reg8(g2, C) = 0)))
           IN g3
      [] opcode = \h0d ->  \* DEC C
           LET g1 == SetLocal(g0, "H", Bool(((Reg8(g0, C) % 15) = 0)))
               g2 == SetReg8(g1, C, (Reg8(g1, C) - 1))
               g3 == SetLocal(g2, "Z", Bool((Reg8(g2, C) = 0)))
           IN g3
      [] opcode = \h0e ->  \* LD C, d8
           SetReg8(g0, C, arg)
      [] opcode = \h0f ->  \* RRCA
           LET g1 == SetLocal(g0, "C", BitAnd(Reg8(g0, A), 1))
               g2 == SetReg8(g1, A, ShiftR(Reg8(g1, A), 1))
               g3 == SetReg8(g2, A, BitOr(Reg8(g2, A), ShiftL(C_flag(g2), 7)))
               g4 == SetLocal(g3, "Z", Bool((Reg8(g3, A) = 0)))
           IN g4
      [] opcode = \h10 ->  \* STOP
           Raise(g0, EmulatorError)
      [] opcode = \h11 ->  \* LD DE, d16
           SetReg16(g0, DE, arg)
      [] opcode = \h12 ->  \* LD (DE), A
           Setitem(g0, Reg16(g0, DE), Reg8(g0, A))
      [] opcode = \h13 ->  \* INC DE
           SetReg16(g0, DE, (Reg16(g0, DE) + 1))
      [] opcode = \h14 ->  \* INC D
           LET g1 == SetLocal(g0, "H", Bool((BitAnd(Reg8(g0, D), 15) = 15)))
               g2 == SetReg8(g1, D, (Reg8(g1, D) + 1))
               g3 == SetLocal(g2, "Z", Bool((Reg8(g2, D) = 0)))
           IN g3
      [] opcode = \h15 ->  \* DEC D
           LET g1 == SetLocal(g0, "H", Bool(((Reg8(g0, D) % 15) = 0)))
               g2 == SetReg8(g1, D, (Reg8(g1, D) - 1))
               g3 == SetLocal(g2, "Z", Bool((Reg8(g2, D) = 0)))
           IN g3
      [] opcode = \h16 ->  \* LD D, d8
           SetReg8(g0, D, arg)
      [] opcode = \h17 ->  \* RLA
           LET g1 == SetLocal(g0, "C", ShiftR(BitAnd(Reg8(g0, A), ShiftL(1, 7)), 7))
               g2 == SetReg8(g1, A, ShiftL(Reg8(g1, A), 1))
               g3 == SetReg8(g2, A, BitOr(Reg8(g2, A), C_flag(g2)))
               g4 == SetLocal(g3, "Z", Bool((Reg8(g3, A) = 0)))
           IN g4
      [] opcode = \h18 ->  \* JR r8
           jmp(g0, (Reg16(g0, PC) + arg))
      [] opcode = \h19 ->  \* ADD HL, DE
           SetReg16(g0, HL, (Reg16(g0, HL) + Reg16(g0, DE)))
      [] opcode = \h1a ->  \* LD A, (DE)
           LET g1 == Touch(g0, Reg16(g0, DE))
               g2 == SetReg8(g1, A, Peek(g1, Reg16(g1, DE)))
           IN g2
      [] opcode = \h1b ->  \* RR E
           LET g1 == SetLocal(g0, "C", BitAnd(Reg8(g0, E), 1))
               g2 == SetReg8(g1, E, ShiftR(Reg8(g1, E), 1))
               g3 == SetReg8(g2, E, BitOr(Reg8(g2, E), ShiftL(C_flag(g2), 7)))
               g4 == SetLocal(g3, "Z", Bool((Reg8(g3, E) = 0)))
           IN g4
      [] opcode = \h1c ->  \* INC E
           LET g1 == SetLocal(g0, "H", Bool((BitAnd(Reg8(g0, E), 15) = 15)))
               g2 == SetReg8(g1, E, (Reg8(g1, E) + 1))
               g3 == SetLocal(g2, "Z", Bool((Reg8(g2, E) = 0)))
           IN g3
      [] opcode = \h1d ->  \* DEC E
           LET g1 == SetLocal(g0, "H", Bool(((Reg8(g0, E) % 15) = 0)))
               g2 == SetReg8(g1, E, (Reg8(g1, E) - 1))
               g3 == SetLocal(g2, "Z", Bool((Reg8(g2, E) = 0)))
           IN g3
      [] opcode = \h1e ->  \* LD E, d8
           SetReg8(g0, E, arg)
      [] opcode = \h1f ->  \* RRA
           LET g1 == SetLocal(g0, "C", BitAnd(Reg8(g0, A), 1))
               g2 == SetReg8(g1, A, ShiftR(Reg8(g1, A), 1))
               g3 == SetReg8(g2, A, BitOr(Reg8(g2, A), ShiftL(C_flag(g2), 7)))
               g4 == SetLocal(g3, "Z", Bool((Reg8(g3, A) = 0)))
           IN g4
      [] opcode = \h20 ->  \* JR NZ, r8
           IF ~Truthy(Z_flag(g0)) THEN (LET g101 == PickCycles(g0, 0)  g102 == jmp(g101, (Reg16(g101, PC) + arg)) IN g102) ELSE PickCycles(g0, 1)
      [] opcode = \h21 ->  \* LD HL, d16
           SetReg16(g0, HL, arg)
      [] opcode = \h22 ->  \* LD (HL+), A
           LET g1 == Setitem(g0, Reg16(g0, HL), Reg8(g0, A))
               g2 == SetReg16(g1, HL, (Reg16(g1, HL) + 1))
           IN g2
      [] opcode = \h23 ->  \* INC HL
           SetReg16(g0, HL, (Reg16(g0, HL) + 1))
      [] opcode = \h24 ->  \* INC H
           LET g1 == SetLocal(g0, "H", Bool((BitAnd(Reg8(g0, H), 15) = 15)))
               g2 == SetReg8(g1, H, (Reg8(g1, H) + 1))
               g3 == SetLocal(g2, "Z", Bool((Reg8(g2, H) = 0)))
           IN g3
      [] opcode = \h25 ->  \* DEC H
           LET g1 == SetLocal(g0, "H", Bool(((Reg8(g0, H) % 15) = 0)))
               g2 == SetReg8(g1, H, (Reg8(g1, H) - 1))
               g3 == SetLocal(g2, "Z", Bool((Reg8(g2, H) = 0)))
           IN g3
      [] opcode = \h26 ->  \* LD H, d8
           SetReg8(g0, H, arg)
      [] opcode = \h27 ->  \* DAA
           LET lo == (Reg8(g0, A) % 10)
               hi == (((Reg8(g0, A) - lo) % 100) \div 10)
               g1 == SetReg8(g0, A, BitOr(ShiftL(hi, 4), lo))
           IN g1
      [] opcode = \h28 ->  \* JR Z, r8
           IF Truthy(Z_flag(g0)) THEN (LET g101 == PickCycles(g0, 0)  g102 == jmp(g101, (Reg16(g101, PC) + arg)) IN g102) ELSE PickCycles(g0, 1)
      [] opcode = \h29 ->  \* ADD HL, HL
           LET n == (Reg16(g0, HL) + Reg16(g0, HL))
               g1 == SetLocal(g0, "C", Bool((n > 65535)))
               g2 == SetReg16(g1, HL, n)
           IN g2
      [] opcode = \h2a ->  \* LD A, (HL+)
           LET g1 == Touch(g0, Reg16(g0, HL))
               g2 == SetReg8(g1, A, Peek(g1, Reg16(g1, HL)))
               g3 == SetReg16(g2, HL, inc16(Reg16(g2, HL)))
           IN g3
      [] opcode = \h2b ->  \* DEC HL
           SetReg16(g0, HL, (Reg16(g0, HL) - 1))
      [] opcode = \h2c ->  \* INC L
           LET g1 == SetLocal(g0, "H", Bool((BitAnd(Reg8(g0, L), 15) = 15)))
               g2 == SetReg8(g1, L, (Reg8(g1, L) + 1))
               g3 == SetLocal(g2, "Z", Bool((Reg8(g2, L) = 0)))
           IN g3
      [] opcode = \h2d ->  \* DEC L
           LET g1 == SetLocal(g0, "H", Bool(((Reg8(g0, L) % 15) = 0)))
               g2 == SetReg8(g1, L, (Reg8(g1, L) - 1))
               g3 == SetLocal(g2, "Z", Bool((Reg8(g2, L) = 0)))
           IN g3
      [] opcode = \h2e ->  \* LD L, d8
           SetReg8(g0, L, arg)
      [] opcode = \h2f ->  \* CPL
           SetReg8(g0, A, BitAnd(Invert(Reg8(g0, A)), 255))
      [] opcode = \h30 ->  \* JR NC, r8
           IF ~Truthy(C_flag(g0)) THEN (LET g101 == PickCycles(g0, 0)  g102 == jmp(g101, (Reg16(g101, PC) + arg)) IN g102) ELSE PickCycles(g0, 1)
      [] opcode = \h31 ->  \* LD SP, d16
           SetReg16(g0, SP, arg)
      [] opcode = \h32 ->  \* LD (HL-), A
           LET g1 == Setitem(g0, Reg16(g0, HL), Reg8(g0, A))
               g2 == SetReg16(g1, HL, (Reg16(g1, HL) - 1))
           IN g2
      [] opcode = \h33 ->  \* INC SP
           LET g1 == SetReg16(g0, SP, (Reg16(g0, SP) + 1))
               g2 == SetLocal(g1, "Z", Bool((Reg16(g1, SP) = 0)))
           IN g2
      [] opcode = \h34 ->  \* INC (HL)
           LET g1 == Touch(g0, Reg16(g0, HL))
               n == Peek(g1, Reg16(g1, HL))
               g2 == SetLocal(g1, "H", Bool((BitAnd(n, 15) = 15)))
               n1 == ((n + 1) % 256)
               g3 == Setitem(g2, Reg16(g2, HL), n1)
               g4 == SetLocal(g3, "Z", Bool((n1 = 0)))
           IN g4
      [] opcode = \h35 ->  \* DEC (HL)
           LET g1 == Touch(g0, Reg16(g0, HL))
               n == Peek(g1, Reg16(g1, HL))
               g2 == SetLocal(g1, "H", Bool(((n % 15) = 0)))
               n1 == ((n - 1) % 256)
               g3 == Setitem(g2, Reg16(g2, HL), n1)
               g4 == SetLocal(g3, "Z", Bool((n1 = 0)))
           IN g4
      [] opcode = \h36 ->  \* LD (HL), d8
           Setitem(g0, Reg16(g0, HL), arg)
      [] opcode = \h37 ->  \* SCF
           g0
      [] opcode = \h38 ->  \* JR C, r8
           IF Truthy(C_flag(g0)) THEN (LET g101 == PickCycles(g0, 0)  g102 == jmp(g101, (Reg16(g101, PC) + arg)) IN g102) ELSE PickCycles(g0, 1)
      [] opcode = \h39 ->  \* ADD HL, SP
           SetReg16(g0, HL, (Reg16(g0, HL) + Reg16(g0, SP)))
      [] opcode = \h3a ->  \* LD A, (HL-)
           LET g1 == Touch(g0, Reg16(g0, HL))
               g2 == SetReg8(g1, A, Peek(g1, Reg16(g1, HL)))
               g3 == SetReg16(g2, HL, (Reg16(g2, HL) - 1))
           IN g3
      [] opcode = \h3b ->  \* DEC SP
           SetReg16(g0, SP, (Reg16(g0, SP) - 1))
      [] opcode = \h3c ->  \* INC A
           LET g1 == SetLocal(g0, "H", Bool((BitAnd(Reg8(g0, A), 15) = 15)))
               g2 == SetReg8(g1, A, (Reg8(g1, A) + 1))
               g3 == SetLocal(g2, "Z", Bool((Reg8(g2, A) = 0)))
           IN g3
      [] opcode = \h3d ->  \* DEC A
           LET g1 == SetLocal(g0, "H", Bool(((Reg8(g0, A) % 15) = 0)))
               g2 == SetReg8(g1, A, (Reg8(g1, A) - 1))
               g3 == SetLocal(g2, "Z", Bool((Reg8(g2, A) = 0)))
           IN g3
      [] opcode = \h3e ->  \* LD A, d8
           SetReg8(g0, A, arg)
      [] opcode = \h3f ->  \* CCF
           SetC_flag(g0, Bool(~Truthy(C_flag(g0))))
      [] OTHER -> Raise(g0, unknown_opcode)

\* CPU.execute, ordinary instructions 0x40..0x7f.
Execute40_7f(g0, opcode, arg) ==
    CASE opcode = \h40 ->  \* LD B, B
           g0
      [] opcode = \h41 ->  \* LD B, C
           SetReg8(g0, B, Reg8(g0, C))
      [] opcode = \h42 ->  \* LD B, D
           SetReg8(g0, B, Reg8(g0, D))
      [] opcode = \h43 ->  \* LD B, E
           SetReg8(g0, B, Reg8(g0, E))
      [] opcode = \h44 ->  \* LD B, H
           SetReg8(g0, B, Reg8(g0, H))
      [] opcode = \h45 ->  \* LD B, L
           SetReg8(g0, B, Reg8(g0, L))
      [] opcode = \h46 ->  \* LD B, (HL)
           LET g1 == Touch(g0, Reg16(g0, HL))
               g2 == SetReg8(g1, B, Peek(g1, Reg16(g1, HL)))
           IN g2
      [] opcode = \h47 ->  \* LD B, A
           SetReg8(g0, B, Reg8(g0, A))
      [] opcode = \h48 ->  \* LD C, B
           g0
      [] opcode = \h49 ->  \* LD C, C
           g0
      [] opcode = \h4a ->  \* LD C, D
           SetReg8(g0, C, Reg8(g0, D))
      [] opcode = \h4b ->  \* LD C, E
           SetReg8(g0, C, Reg8(g0, E))
      [] opcode = \h4c ->  \* LD C, H
           g0
      [] opcode = \h4d ->  \* LD C, L
           SetReg8(g0, C, Reg8(g0, L))
      [] opcode = \h4e ->  \* LD C, (HL)
           LET g1 == Touch(g0, Reg16(g0, HL))
               g2 == SetReg8(g1, C, Peek(g1, Reg16(g1, HL)))
           IN g2
      [] opcode = \h4f ->  \* LD C, A
           SetReg8(g0, C, Reg8(g0, A))
      [] opcode = \h50 ->  \* LD D, B
           SetReg8(g0, D, Reg8(g0, B))
      [] opcode = \h51 ->  \* LD D, C
           SetReg8(g0, D, Reg8(g0, C))
      [] opcode = \h52 ->  \* LD D, D
           g0
      [] opcode = \h53 ->  \* LD D, E
           SetReg8(g0, D, Reg8(g0, E))
      [] opcode = \h54 ->  \* LD D, H
           SetReg8(g0, D, Reg8(g0, H))
      [] opcode = \h55 ->  \* LD D, L
           SetReg8(g0, D, Reg8(g0, L))
      [] opcode = \h56 ->  \* LD D, (HL)
           LET g1 == Touch(g0, Reg16(g0, HL))
               g2 == SetReg8(g1, D, Peek(g1, Reg16(g1, HL)))
           IN g2
      [] opcode = \h57 ->  \* LD D, A
           SetReg8(g0, D, Reg8(g0, A))
      [] opcode = \h58 ->  \* LD E, B
           SetReg8(g0, E, Reg8(g0, B))
      [] opcode = \h59 ->  \* LD E, C
           SetReg8(g0, E, Reg8(g0, C))
      [] opcode = \h5a ->  \* LD E, D
           SetReg8(g0, E, Reg8(g0, D))
      [] opcode = \h5b ->  \* LD E, E
           g0
      [] opcode = \h5c ->  \* LD E, H
           SetReg8(g0, E, Reg8(g0, H))
      [] opcode = \h5d ->  \* LD E, L
           SetReg8(g0, E, Reg8(g0, L))
      [] opcode = \h5e ->  \* LD E, (HL)
           LET g1 == Touch(g0, Reg16(g0, HL))
               g2 == SetReg8(g1, E, Peek(g1, Reg16(g1, HL)))
           IN g2
      [] opcode = \h5f ->  \* LD E, A
           SetReg8(g0, E, Reg8(g0, A))
      [] opcode = \h60 ->  \* LD H, B
           SetReg8(g0, H, Reg8(g0, B))
      [] opcode = \h61 ->  \* LD H, C
           SetReg8(g0, H, Reg8(g0, C))
      [] opcode = \h62 ->  \* LD H, D
           SetReg8(g0, H, Reg8(g0, D))
      [] opcode = \h63 ->  \* LD H, E
           SetReg8(g0, H, Reg8(g0, E))
      [] opcode = \h64 ->  \* LD H, H
           g0
      [] opcode = \h65 ->  \* LD H, L
           SetReg8(g0, H, Reg8(g0, L))
      [] opcode = \h66 ->  \* LD H, (HL)
           LET g1 == Touch(g0, Reg16(g0, HL))
               g2 == SetReg8(g1, H, Peek(g1, Reg16(g1, HL)))
           IN g2
      [] opcode = \h67 ->  \* LD H, A
           SetReg8(g0, H, Reg8(g0, A))
      [] opcode = \h68 ->  \* LD L, B
           SetReg8(g0, L, Reg8(g0, B))
      [] opcode = \h69 ->  \* LD L, C
           SetReg8(g0, L, Reg8(g0, C))
      [] opcode = \h6a ->  \* LD L, D
           SetReg8(g0, L, Reg8(g0, D))
      [] opcode = \h6b ->  \* LD L, E
           SetReg8(g0, L, Reg8(g0, E))
      [] opcode = \h6c ->  \* LD L, H
           SetReg8(g0, L, Reg8(g0, H))
      [] opcode = \h6d ->  \* LD L, L
           g0
      [] opcode = \h6e ->  \* LD L, (HL)
           LET g1 == Touch(g0, Reg16(g0, HL))
               g2 == SetReg8(g1, L, Peek(g1, Reg16(g1, HL)))
           IN g2
      [] opcode = \h6f ->  \* LD L, A
           SetReg8(g0, L, Reg8(g0, A))
      [] opcode = \h70 ->  \* LD (HL), B
           Setitem(g0, Reg16(g0, HL), Reg8(g0, B))
      [] opcode = \h71 ->  \* LD (HL), C
           Setitem(g0, Reg16(g0, HL), Reg8(g0, C))
      [] opcode = \h72 ->  \* LD (HL), D
           Setitem(g0, Reg16(g0, HL), Reg8(g0, D))
      [] opcode = \h73 ->  \* LD (HL), E
           Setitem(g0, Reg16(g0, HL), Reg8(g0, E))
      [] opcode = \h74 ->  \* LD (HL), H
           Setitem(g0, Reg16(g0, HL), Reg8(g0, H))
      [] opcode = \h75 ->  \* LD (HL), L
           Setitem(g0, Reg16(g0, HL), Reg8(g0, L))
      [] opcode = \h76 ->  \* HALT
           Raise(g0, not_implemented)
      [] opcode = \h77 ->  \* LD (HL), A
           Setitem(g0, Reg16(g0, HL), Reg8(g0, A))
      [] opcode = \h78 ->  \* LD A, B
           SetReg8(g0, A, Reg8(g0, B))
      [] opcode = \h79 ->  \* LD A, C
           SetReg8(g0, A, Reg8(g0, C))
      [] opcode = \h7a ->  \* LD A, B
           SetReg8(g0, A, Reg8(g0, B))
      [] opcode = \h7b ->  \* LD A, E
           SetReg8(g0, A, Reg8(g0, E))
      [] opcode = \h7c ->  \* LD A, H
           SetReg8(g0, A, Reg8(g0, H))
      [] opcode = \h7d ->  \* LD A, L
           SetReg8(g0, A, Reg8(g0, L))
      [] opcode = \h7e ->  \* LD A, (HL)
           LET g1 == Touch(g0, Reg16(g0, HL))
               g2 == SetReg8(g1, A, Peek(g1, Reg16(g1, HL)))
           IN g2
      [] opcode = \h7f ->  \* LD A, A
           g0
      [] OTHER -> Raise(g0, unknown_opcode)

\* CPU.execute, ordinary instructions 0x80..0xbf.
Execute80_bf(g0, opcode, arg) ==
    CASE opcode = \h80 ->  \* ADD A, B
           LET g1 == SetReg8(g0, A, (Reg8(g0, A) + Reg8(g0, B)))
               g2 == SetLocal(g1, "Z", Bool((Reg8(g1, A) = 0)))
           IN g2
      [] opcode = \h81 ->  \* ADD A, C
           LET g1 == SetReg8(g0, A, (Reg8(g0, A) + Reg8(g0, C)))
               g2 == SetLocal(g1, "Z", Bool((Reg8(g1, A) = 0)))
           IN g2
      [] opcode = \h82 ->  \* ADD A, D
           LET g1 == SetReg8(g0, A, (Reg8(g0, A) + Reg8(g0, D)))
               g2 == SetLocal(g1, "Z", Bool((Reg8(g1, A) = 0)))
           IN g2
      [] opcode = \h83 ->  \* ADD A, E
           LET g1 == SetReg8(g0, A, (Reg8(g0, A) + Reg8(g0, E)))
               g2 == SetLocal(g1, "Z", Bool((Reg8(g1, A) = 0)))
           IN g2
      [] opcode = \h84 ->  \* ADD A, H
           LET g1 == SetReg8(g0, A, (Reg8(g0, A) + Reg8(g0, H)))
               g2 == SetLocal(g1, "Z", Bool((Reg8(g1, A) = 0)))
           IN g2
      [] opcode = \h85 ->  \* ADD A, L
           LET g1 == SetReg8(g0, A, (Reg8(g0, A) + Reg8(g0, L)))
               g2 == SetLocal(g1, "Z", Bool((Reg8(g1, A) = 0)))
           IN g2
      [] opcode = \h86 ->  \* ADD A, (HL)
           LET g1 == Touch(g0, Reg16(g0, HL))
               g2 == SetReg8(g1, A, (Reg8(g0, A) + Peek(g1, Reg16(g1, HL))))
               g3 == SetLocal(g2, "Z", Bool((Reg8(g2, A) = 0)))
           IN g3
      [] opcode = \h87 ->  \* ADD A, A
           LET g1 == SetReg8(g0, A, (Reg8(g0, A) + Reg8(g0, A)))
               g2 == SetLocal(g1, "Z", Bool((Reg8(g1, A) = 0)))
           IN g2
      [] opcode = \h88 ->  \* ADC A, B
           LET n == (Reg8(g0, B) + C_flag(g0))
               g1 == SetReg8(g0, A, (Reg8(g0, A) + n))
               g2 == SetLocal(g1, "Z", Bool((Reg8(g1, A) = 0)))
           IN g2
      [] opcode = \h89 ->  \* ADC A, C
           LET n == (Reg8(g0, C) + C_flag(g0))
               g1 == SetReg8(g0, A, (Reg8(g0, A) + n))
               g2 == SetLocal(g1, "Z", Bool((Reg8(g1, A) = 0)))
           IN g2
      [] opcode = \h8a ->  \* ADC A, D
           LET n == (Reg8(g0, D) + C_flag(g0))
               g1 == SetReg8(g0, A, (Reg8(g0, A) + n))
               g2 == SetLocal(g1, "Z", Bool((Reg8(g1, A) = 0)))
           IN g2
      [] opcode = \h8b ->  \* ADC A, E
           LET n == (Reg8(g0, D) + C_flag(g0))
               g1 == SetReg8(g0, A, (Reg8(g0, A) + n))
               g2 == SetLocal(g1, "Z", Bool((Reg8(g1, A) = 0)))
           IN g2
      [] opcode = \h8c ->  \* ADC A, H
           LET n == (Reg8(g0, H) + C_flag(g0))
               g1 == SetReg8(g0, A, (Reg8(g0, A) + n))
               g2 == SetLocal(g1, "Z", Bool((Reg8(g1, A) = 0)))
           IN g2
      [] opcode = \h8d ->  \* ADC A, L
           LET n == (Reg8(g0, H) + C_flag(g0))
               g1 == SetReg8(g0, A, (Reg8(g0, A) + n))
               g2 == SetLocal(g1, "Z", Bool((Reg8(g1, A) = 0)))
           IN g2
      [] opcode = \h8e ->  \* ADC A, (HL)
           LET g1 == Touch(g0, Reg16(g0, HL))
               n == (Peek(g1, Reg16(g1, HL)) + C_flag(g1))
               g2 == SetReg8(g1, A, (Reg8(g1, A) + n))
               g3 == SetLocal(g2, "Z", Bool((Reg8(g2, A) = 0)))
           IN g3
      [] opcode = \h8f ->  \* ADC A, A
           LET g1 == Touch(g0, Reg16(g0, HL))
               n == (Peek(g1, Reg16(g1, HL)) + C_flag(g1))
               g2 == SetReg8(g1, A, (Reg8(g1, A) + n))
               g3 == SetLocal(g2, "Z", Bool((Reg8(g2, A) = 0)))
           IN g3
      [] opcode = \h90 ->  \* SUB B
           LET g1 == SetReg8(g0, A, ((Reg8(g0, A) - Reg8(g0, B)) % 256))
               g2 == SetLocal(g1, "Z", Bool((Reg8(g1, A) = 0)))
           IN g2
      [] opcode = \h91 ->  \* SUB C
           LET g1 == SetReg8(g0, A, (Reg8(g0, A) - Reg8(g0, C)))
               g2 == SetLocal(g1, "Z", Bool((Reg8(g1, A) = 0)))
           IN g2
      [] opcode = \h92 ->  \* SUB D
           LET g1 == SetReg8(g0, A, (Reg8(g0, A) - Reg8(g0, D)))
               g2 == SetLocal(g1, "Z", Bool((Reg8(g1, A) = 0)))
           IN g2
      [] opcode = \h93 ->  \* SUB E
           LET g1 == SetReg8(g0, A, (Reg8(g0, A) - Reg8(g0, E)))
               g2 == SetLocal(g1, "Z", Bool((Reg8(g1, A) = 0)))
           IN g2
      [] opcode = \h94 ->  \* SUB H
           LET g1 == SetReg8(g0, A, (Reg8(g0, A) - Reg8(g0, H)))
               g2 == SetLocal(g1, "Z", Bool((Reg8(g1, A) = 0)))
           IN g2
      [] opcode = \h95 ->  \* SUB L
           LET g1 == SetReg8(g0, A, (Reg8(g0, A) - Reg8(g0, L)))
               g2 == SetLocal(g1, "Z", Bool((Reg8(g1, A) = 0)))
           IN g2
      [] opcode = \h96 ->  \* SUB (HL)
           LET g1 == Touch(g0, Reg16(g0, HL))
               g2 == SetReg8(g1, A, (Reg8(g0, A) - Peek(g1, Reg16(g1, HL))))
               g3 == SetLocal(g2, "Z", Bool((Reg8(g2, A) = 0)))
           IN g3
      [] opcode = \h97 ->  \* SUB A
           LET g1 == SetReg8(g0, A, (Reg8(g0, A) - Reg8(g0, A)))
               g2 == SetReg8(g1, A, ((Reg8(g1, A) - Reg8(g1, A)) % 256))
               g3 == SetLocal(g2, "Z", Bool((Reg8(g2, A) = 0)))
           IN g3
      [] opcode = \h98 ->  \* SBC A, B
           LET n == (Reg8(g0, B) + C_flag(g0))
               g1 == SetReg8(g0, A, (Reg8(g0, A) - n))
               g2 == SetLocal(g1, "Z", Bool((Reg8(g1, A) = 0)))
           IN g2
      [] opcode = \h99 ->  \* SBC A, C
           LET n == (Reg8(g0, C) + C_flag(g0))
               g1 == SetReg8(g0, A, (Reg8(g0, A) - n))
               g2 == SetLocal(g1, "Z", Bool((Reg8(g1, A) = 0)))
           IN g2
      [] opcode = \h9a ->  \* SBC A, D
           LET n == (Reg8(g0, D) + C_flag(g0))
               g1 == SetReg8(g0, A, (Reg8(g0, A) - n))
               g2 == SetLocal(g1, "Z", Bool((Reg8(g1, A) = 0)))
           IN g2
      [] opcode = \h9b ->  \* SBC A, E
           LET n == (Reg8(g0, E) + C_flag(g0))
               g1 == SetReg8(g0, A, (Reg8(g0, A) - n))
               g2 == SetLocal(g1, "Z", Bool((Reg8(g1, A) = 0)))
           IN g2
      [] opcode = \h9c ->  \* SBC A, H
           LET n == (Reg8(g0, H) + C_flag(g0))
               g1 == SetReg8(g0, A, (Reg8(g0, A) - n))
               g2 == SetLocal(g1, "Z", Bool((Reg8(g1, A) = 0)))
           IN g2
      [] opcode = \h9d ->  \* SBC A, L
           LET n == (Reg8(g0, L) + C_flag(g0))
               g1 == SetReg8(g0, A, (Reg8(g0, A) - n))
               g2 == SetLocal(g1, "Z", Bool((Reg8(g1, A) = 0)))
           IN g2
      [] opcode = \h9e ->  \* SBC A, (HL)
           LET g1 == Touch(g0, Reg16(g0, HL))
               n == (Peek(g1, Reg16(g1, HL)) + C_flag(g1))
               g2 == SetReg8(g1, A, (Reg8(g1, A) - n))
               g3 == SetLocal(g2, "Z", Bool((Reg8(g2, A) = 0)))
           IN g3
      [] opcode = \h9f ->  \* SBC A, A
           LET n == (Reg8(g0, A) + C_flag(g0))
               g1 == SetReg8(g0, A, (Reg8(g0, A) - n))
               g2 == SetLocal(g1, "Z", Bool((Reg8(g1, A) = 0)))
           IN g2
      [] opcode = \ha0 ->  \* AND B
           LET g1 == SetReg8(g0, A, BitAnd(Reg8(g0, A), Reg8(g0, B)))
               g2 == SetLocal(g1, "Z", Bool((Reg8(g1, A) = 0)))
           IN g2
      [] opcode = \ha1 ->  \* AND C
           LET g1 == SetReg8(g0, A, BitAnd(Reg8(g0, A), Reg8(g0, C)))
               g2 == SetLocal(g1, "Z", Bool((Reg8(g1, A) = 0)))
           IN g2
      [] opcode = \ha2 ->  \* AND D
           LET g1 == SetReg8(g0, A, BitAnd(Reg8(g0, A), Reg8(g0, D)))
               g2 == SetLocal(g1, "Z", Bool((Reg8(g1, A) = 0)))
           IN g2
      [] opcode = \ha3 ->  \* AND E
           LET g1 == SetReg8(g0, A, BitAnd(Reg8(g0, A), Reg8(g0, E)))
               g2 == SetLocal(g1, "Z", Bool((Reg8(g1, A) = 0)))
           IN g2
      [] opcode = \ha4 ->  \* AND H
           LET g1 == SetReg8(g0, A, BitAnd(Reg8(g0, A), Reg8(g0, H)))
               g2 == SetLocal(g1, "Z", Bool((Reg8(g1, A) = 0)))
           IN g2
      [] opcode = \ha5 ->  \* AND L
           LET g1 == SetReg8(g0, A, BitAnd(Reg8(g0, A), Reg8(g0, L)))
               g2 == SetLocal(g1, "Z", Bool((Reg8(g1, A) = 0)))
           IN g2
      [] opcode = \ha6 ->  \* AND (HL)
           LET g1 == Touch(g0, Reg16(g0, HL))
               g2 == SetReg8(g1, A, BitAnd(Reg8(g0, A), Peek(g1, Reg16(g1, HL))))
               g3 == SetLocal(g2, "Z", Bool((Reg8(g2, A) = 0)))
           IN g3
      [] opcode = \ha7 ->  \* AND A
           SetLocal(g0, "Z", Bool((Reg8(g0, A) = 0)))
      [] opcode = \ha8 ->  \* XOR B
           LET g1 == SetReg8(g0, A, BitXor(Reg8(g0, A), Reg8(g0, B)))
               g2 == SetLocal(g1, "Z", Bool((Reg8(g1, A) = 0)))
           IN g2
      [] opcode = \ha9 ->  \* XOR C
           LET g1 == SetReg8(g0, A, BitXor(Reg8(g0, A), Reg8(g0, C)))
               g2 == SetLocal(g1, "Z", Bool((Reg8(g1, A) = 0)))
           IN g2
      [] opcode = \haa ->  \* XOR D
           LET g1 == SetReg8(g0, A, BitXor(Reg8(g0, A), Reg8(g0, D)))
               g2 == SetLocal(g1, "Z", Bool((Reg8(g1, A) = 0)))
           IN g2
      [] opcode = \hab ->  \* XOR E
           LET g1 == SetReg8(g0, A, BitXor(Reg8(g0, A), Reg8(g0, E)))
               g2 == SetLocal(g1, "Z", Bool((Reg8(g1, A) = 0)))
           IN g2
      [] opcode = \hac ->  \* XOR H
           LET g1 == SetReg8(g0, A, BitXor(Reg8(g0, A), Reg8(g0, H)))
               g2 == SetLocal(g1, "Z", Bool((Reg8(g1, A) = 0)))
           IN g2
      [] opcode = \had ->  \* XOR L
           LET g1 == SetReg8(g0, A, BitXor(Reg8(g0, A), Reg8(g0, L)))
               g2 == SetLocal(g1, "Z", Bool((Reg8(g1, A) = 0)))
           IN g2
      [] opcode = \hae ->  \* XOR (HL)
           LET g1 == Touch(g0, Reg16(g0, HL))
               g2 == SetReg8(g1, A, BitXor(Reg8(g0, A), Peek(g1, Reg16(g1, HL))))
               g3 == SetLocal(g2, "Z", Bool((Reg8(g2, A) = 0)))
           IN g3
      [] opcode = \haf ->  \* XOR A
           LET g1 == SetReg8(g0, A, 0)
               g2 == SetLocal(g1, "Z", Bool(TRUE))
           IN g2
      [] opcode = \hb0 ->  \* OR B
           LET g1 == SetReg8(g0, A, BitOr(Reg8(g0, A), Reg8(g0, B)))
               g2 == SetLocal(g1, "Z", Bool((Reg8(g1, A) = 0)))
           IN g2
      [] opcode = \hb1 ->  \* OR C
           LET g1 == SetReg8(g0, A, BitOr(Reg8(g0, A), Reg8(g0, C)))
               g2 == SetLocal(g1, "Z", Bool((Reg8(g1, A) = 0)))
           IN g2
      [] opcode = \hb2 ->  \* OR D
           LET g1 == SetReg8(g0, A, BitOr(Reg8(g0, A), Reg8(g0, D)))
               g2 == SetLocal(g1, "Z", Bool((Reg8(g1, A) = 0)))
           IN g2
      [] opcode = \hb3 ->  \* OR E
           LET g1 == SetReg8(g0, A, BitOr(Reg8(g0, A), Reg8(g0, E)))
               g2 == SetLocal(g1, "Z", Bool((Reg8(g1, A) = 0)))
           IN g2
      [] opcode = \hb4 ->  \* OR H
           LET g1 == SetReg8(g0, A, BitOr(Reg8(g0, A), Reg8(g0, H)))
               g2 == SetLocal(g1, "Z", Bool((Reg8(g1, A) = 0)))
           IN g2
      [] opcode = \hb5 ->  \* OR L
           LET g1 == SetReg8(g0, A, BitOr(Reg8(g0, A), Reg8(g0, L)))
               g2 == SetLocal(g1, "Z", Bool((Reg8(g1, A) = 0)))
           IN g2
      [] opcode = \hb6 ->  \* OR (HL)
           LET g1 == Touch(g0, Reg16(g0, HL))
               g2 == SetReg8(g1, A, BitOr(Reg8(g0, A), Peek(g1, Reg16(g1, HL))))
               g3 == SetLocal(g2, "Z", Bool((Reg8(g2, A) = 0)))
           IN g3
      [] opcode = \hb7 ->  \* OR A
           LET g1 == SetReg8(g0, A, BitOr(Reg8(g0, A), Reg8(g0, A)))
               g2 == SetLocal(g1, "Z", Bool((Reg8(g1, A) = 0)))
           IN g2
      [] opcode = \hb8 ->  \* CP B
           LET result == ((Reg8(g0, A) - Reg8(g0, B)) % 256)
               g1 == SetLocal(g0, "Z", Bool((result = 0)))
               g2 == SetLocal(g1, "C", Bool((Reg8(g1, A) < result)))
           IN g2
      [] opcode = \hb9 ->  \* CP C
           LET result == ((Reg8(g0, A) - Reg8(g0, C)) % 256)
               g1 == SetLocal(g0, "Z", Bool((result = 0)))
               g2 == SetLocal(g1, "C", Bool((Reg8(g1, A) < result)))
           IN g2
      [] opcode = \hba ->  \* CP D
           LET result == ((Reg8(g0, A) - Reg8(g0, D)) % 256)
               g1 == SetLocal(g0, "Z", Bool((result = 0)))
               g2 == SetLocal(g1, "C", Bool((Reg8(g1, A) < result)))
           IN g2
      [] opcode = \hbb ->  \* CP E
           LET result == ((Reg8(g0, A) - Reg8(g0, E)) % 256)
               g1 == SetLocal(g0, "Z", Bool((result = 0)))
               g2 == SetLocal(g1, "C", Bool((Reg8(g1, A) < result)))
           IN g2
      [] opcode = \hbc ->  \* CP H
           LET result == ((Reg8(g0, A) - Reg8(g0, H)) % 256)
               g1 == SetLocal(g0, "Z", Bool((result = 0)))
               g2 == SetLocal(g1, "C", Bool((Reg8(g1, A) < result)))
           IN g2
      [] opcode = \hbd ->  \* CP L
           LET result == ((Reg8(g0, A) - Reg8(g0, L)) % 256)
               g1 == SetLocal(g0, "Z", Bool((result = 0)))
               g2 == SetLocal(g1, "C", Bool((Reg8(g1, A) < result)))
           IN g2
      [] opcode = \hbe ->  \* CP (HL)
           LET g1 == Touch(g0, Reg16(g0, HL))
               result == ((Reg8(g0, A) - Peek(g1, Reg16(g1, HL))) % 256)
               g2 == SetLocal(g1, "Z", Bool((result = 0)))
               g3 == SetLocal(g2, "C", Bool((Reg8(g2, A) < result)))
           IN g3
      [] opcode = \hbf ->  \* CP A
           LET result == ((Reg8(g0, A) - Reg8(g0, A)) % 256)
               g1 == SetLocal(g0, "Z", Bool((result = 0)))
               g2 == SetLocal(g1, "C", Bool((Reg8(g1, A) < result)))
           IN g2
      [] OTHER -> Raise(g0, unknown_opcode)

\* CPU.execute, ordinary instructions 0xc0..0xff.
Executec0_ff(g0, opcode, arg) ==
    CASE opcode = \hc0 ->  \* RET NZ
           IF ~Truthy(Z_flag(g0)) THEN (LET g101 == PickCycles(g0, 1)  g102 == ret(g101) IN g102) ELSE PickCycles(g0, 0)
      [] opcode = \hc1 ->  \* POP BC
           PopThen(g0, LAMBDA g, x: SetReg16(g, BC, x))
      [] opcode = \hc2 ->  \* JP NZ, a16
           IF ~Truthy(Z_flag(g0)) THEN (LET g101 == PickCycles(g0, 0)  g102 == jmp(g101, arg) IN g102) ELSE PickCycles(g0, 1)
      [] opcode = \hc3 ->  \* JP a16
           jmp(g0, arg)
      [] opcode = \hc4 ->  \* CALL NZ, a16
           IF ~Truthy(Z_flag(g0)) THEN (LET g101 == PickCycles(g0, 0)  g102 == call(g101, arg) IN g102) ELSE PickCycles(g0, 1)
      [] opcode = \hc5 ->  \* PUSH BC
           push(g0, Reg16(g0, BC))
      [] opcode = \hc6 ->  \* ADD A, d8
           LET g1 == SetReg8(g0, A, (Reg8(g0, A) + arg))
               g2 == SetLocal(g1, "Z", Bool((Reg8(g1, A) = 0)))
           IN g2
      [] opcode = \hc7 ->  \* RST 00H
           rst(g0, 0)
      [] opcode = \hc8 ->  \* RET Z
           IF Truthy(Z_flag(g0)) THEN (LET g101 == PickCycles(g0, 0)  g102 == ret(g101) IN g102) ELSE PickCycles(g0, 1)
      [] opcode = \hc9 ->  \* RET
           ret(g0)
      [] opcode = \hca ->  \* JP Z, a16
           IF Truthy(Z_flag(g0)) THEN (LET g101 == PickCycles(g0, 0)  g102 == jmp(g101, arg) IN g102) ELSE PickCycles(g0, 1)
      [] opcode = \hcb ->  \* PREFIX CB
           Raise(g0, InvalidOpcodeError)
      [] opcode = \hcc ->  \* CALL Z, a16
           IF Truthy(Z_flag(g0)) THEN (LET g101 == PickCycles(g0, 0)  g102 == call(g101, arg) IN g102) ELSE PickCycles(g0, 1)
      [] opcode = \hcd ->  \* CALL a16
           call(g0, arg)
      [] opcode = \hce ->  \* ADC A, d8
           LET n == (arg + C_flag(g0))
               g1 == SetReg8(g0, A, (Reg8(g0, A) + n))
               g2 == SetLocal(g1, "Z", Bool((Reg8(g1, A) = 0)))
           IN g2
      [] opcode = \hcf ->  \* RST 08H
           rst(g0, 8)
      [] opcode = \hd0 ->  \* RET NC
           IF ~Truthy(C_flag(g0)) THEN (LET g101 == PickCycles(g0, 0)  g102 == ret(g101) IN g102) ELSE PickCycles(g0, 1)
      [] opcode = \hd1 ->  \* POP DE
           PopThen(g0, LAMBDA g, x: SetReg16(g, DE, x))
      [] opcode = \hd2 ->  \* JP NC, a16
           IF ~Truthy(C_flag(g0)) THEN (LET g101 == PickCycles(g0, 0)  g102 == jmp(g101, arg) IN g102) ELSE PickCycles(g0, 1)
      [] opcode = \hd3 ->  \* -
           Raise(g0, InvalidOpcodeError)
      [] opcode = \hd4 ->  \* CALL NC, a16
           IF ~Truthy(C_flag(g0)) THEN (LET g101 == PickCycles(g0, 0)  g102 == call(g101, arg) IN g102) ELSE PickCycles(g0, 1)
      [] opcode = \hd5 ->  \* PUSH DE
           push(g0, Reg16(g0, DE))
      [] opcode = \hd6 ->  \* SUB d8
           LET g1 == SetReg8(g0, A, (Reg8(g0, A) - arg))
               g2 == SetLocal(g1, "Z", Bool((Reg8(g1, A) = 0)))
           IN g2
      [] opcode = \hd7 ->  \* RST 10H
           rst(g0, 16)
      [] opcode = \hd8 ->  \* RET C
           IF Truthy(C_flag(g0)) THEN (LET g101 == PickCycles(g0, 0)  g102 == ret(g101) IN g102) ELSE PickCycles(g0, 1)
      [] opcode = \hd9 ->  \* RETI
           LET g1 == ret(g0)
               g2 == SetIME(g1, TRUE)
           IN g2
      [] opcode = \hda ->  \* JP C, a16
           IF Truthy(C_flag(g0)) THEN (LET g101 == PickCycles(g0, 0)  g102 == jmp(g101, arg) IN g102) ELSE PickCycles(g0, 1)
      [] opcode = \hdb ->  \* -
           Raise(g0, InvalidOpcodeError)
      [] opcode = \hdc ->  \* CALL C
           IF Truthy(C_flag(g0)) THEN (LET g101 == PickCycles(g0, 0)  g102 == call(g101, Reg8(g101, C)) IN g102) ELSE PickCycles(g0, 1)
      [] opcode = \hdd ->  \* -
           Raise(g0, InvalidOpcodeError)
      [] opcode = \hde ->  \* SBC A, d8
           LET n == (arg + C_flag(g0))
               g1 == SetReg8(g0, A, (Reg8(g0, A) - n))
               g2 == SetLocal(g1, "Z", Bool((Reg8(g1, A) = 0)))
           IN g2
      [] opcode = \hdf ->  \* RST 18H
           rst(g0, 24)
      [] opcode = \he0 ->  \* LDH ($ff00+a8), A
           Setitem(g0, arg, Reg8(g0, A))
      [] opcode = \he1 ->  \* POP HL
           PopThen(g0, LAMBDA g, x: SetReg16(g, HL, x))
      [] opcode = \he2 ->  \* LD ($ff00+C), A
           Setitem(g0, ((65280 + Reg8(g0, C)) % 65536), Reg8(g0, A))
      [] opcode = \he3 ->  \* -
           Raise(g0, InvalidOpcodeError)
      [] opcode = \he4 ->  \* -
           Raise(g0, InvalidOpcodeError)
      [] opcode = \he5 ->  \* PUSH HL
           push(g0, Reg16(g0, HL))
      [] opcode = \he6 ->  \* AND d8
           LET g1 == SetReg8(g0, A, BitAnd(Reg8(g0, A), arg))
               g2 == SetLocal(g1, "Z", Bool((Reg8(g1, A) = 0)))
           IN g2
      [] opcode = \he7 ->  \* RST 20H
           rst(g0, 32)
      [] opcode = \he8 ->  \* ADD SP, r8
           SetReg16(g0, SP, (Reg16(g0, SP) + arg))
      [] opcode = \he9 ->  \* JP (HL)
           LET g1 == Touch(g0, Reg16(g0, HL))
               g2 == jmp(g1, Peek(g1, Reg16(g1, HL)))
           IN g2
      [] opcode = \hea ->  \* LD (a16), A
           Setitem(g0, arg, Reg8(g0, A))
      [] opcode = \heb ->  \* -
           Raise(g0, InvalidOpcodeError)
      [] opcode = \hec ->  \* -
           Raise(g0, InvalidOpcodeError)
      [] opcode = \hed ->  \* -
           Raise(g0, InvalidOpcodeError)
      [] opcode = \hee ->  \* XOR d8
           LET g1 == SetReg8(g0, A, BitXor(Reg8(g0, A), arg))
               g2 == SetLocal(g1, "Z", Bool((Reg8(g1, A) = 0)))
           IN g2
      [] opcode = \hef ->  \* RST 28H
           rst(g0, 40)
      [] opcode = \hf0 ->  \* LDH A, (a8)
           LET g1 == Touch(g0, arg)
               g2 == SetReg8(g1, A, Peek(g1, arg))
           IN g2
      [] opcode = \hf1 ->  \* POP AF
           PopThen(g0, LAMBDA g, x: SetReg16(g, AF, x))
      [] opcode = \hf2 ->  \* LD A, (C)
           LET g1 == Touch(g0, Reg8(g0, C))
               g2 == SetReg8(g1, A, Peek(g1, Reg8(g1, C)))
           IN g2
      [] opcode = \hf3 ->  \* DI
           SetIME(g0, FALSE)
      [] opcode = \hf4 ->  \* -
           Raise(g0, InvalidOpcodeError)
      [] opcode = \hf5 ->  \* PUSH AF
           push(g0, Reg16(g0, AF))
      [] opcode = \hf6 ->  \* OR d8
           LET g1 == SetReg8(g0, A, BitOr(Reg8(g0, A), arg))
               g2 == SetLocal(g1, "Z", Bool((Reg8(g1, A) = 0)))
           IN g2
      [] opcode = \hf7 ->  \* RST 30H
           rst(g0, 48)
      [] opcode = \hf8 ->  \* LD HL, SP+r8
           SetReg16(g0, HL, (Reg16(g0, SP) + arg))
      [] opcode = \hf9 ->  \* LD SP, HL
           SetReg16(g0, SP, Reg16(g0, HL))
      [] opcode = \hfa ->  \* LD A, (a16)
           LET g1 == Touch(g0, arg)
               g2 == SetReg8(g1, A, Peek(g1, arg))
           IN g2
      [] opcode = \hfb ->  \* EI
           SetIME(g0, TRUE)
      [] opcode = \hfc ->  \* -
           Raise(g0, InvalidOpcodeError)
      [] opcode = \hfd ->  \* -
           Raise(g0, InvalidOpcodeError)
      [] opcode = \hfe ->  \* CP d8
           LET result == ((Reg8(g0, A) - arg) % 256)
               g1 == SetLocal(g0, "Z", Bool((result = 0)))
               g2 == SetLocal(g1, "C", Bool((Reg8(g1, A) < arg)))
           IN g2
      [] opcode = \hff ->  \* RST 38H
           rst(g0, 56)
      [] OTHER -> Raise(g0, unknown_opcode)

\* One turn of the loop that updates the flags after the instruction.
ApplyFlag(gb, shift, flag) ==
    IF flag = "0" THEN SetReg8(gb, F, BitAnd(Reg8(gb, F), Invert(ShiftL(1, shift))))
    ELSE IF flag = "1" THEN SetReg8(gb, F, BitOr(Reg8(gb, F), ShiftL(1, shift)))
    ELSE IF flag = "Z" /\ gb.Z # None THEN SetZ_flag(gb, gb.Z)
    ELSE IF flag = "H" /\ gb.H # None THEN SetH_flag(gb, gb.H)
    ELSE IF flag = "N" /\ gb.N # None THEN SetN_flag(gb, gb.N)
    ELSE IF flag = "C" /\ gb.C # None THEN SetC_flag(gb, gb.C)
    ELSE gb

\* for shift, flag in zip((7, 6, 5, 4), flags), from the i-th pair on.
RECURSIVE ApplyFlags(_, _, _)
ApplyFlags(gb, flags, i) ==
    IF i > Len(flags) \/ i > 4 THEN gb
    ELSE ApplyFlags(ApplyFlag(gb, <<7, 6, 5, 4>>[i], flags[i]), flags, i + 1)

\* self.cycles += cycles; self.total_cycles += cycles.
AccountCycles(gb) ==
    IF gb.raised # NoError THEN gb
    ELSE IF Len(gb.cycles) # 1 THEN Raise(gb, TypeError)
    ELSE [gb EXCEPT !.cpu.cycles = @ + gb.cycles[1],
                    !.cpu.total_cycles = @ + gb.cycles[1]]

\* CPU.execute: the branch cascade on the prefix and the opcode.
Dispatch(g0, opcode, raw, arg) ==
    IF raw[1] = \hcb THEN ExecuteCB(g0, opcode, arg)
    ELSE IF raw[1] = \h10 THEN ExecuteStop(g0, opcode, arg)
    ELSE IF opcode <= \h3f THEN Execute00_3f(g0, opcode, arg)
    ELSE IF opcode <= \h7f THEN Execute40_7f(g0, opcode, arg)
    ELSE IF opcode <= \hbf THEN Execute80_bf(g0, opcode, arg)
    ELSE Executec0_ff(g0, opcode, arg)

\* CPU.execute.
execute(gb, opcode, length, cycles, flags, raw, arg) ==
    IF gb.raised # NoError THEN gb
    ELSE AccountCycles(
             ApplyFlags(
                 Dispatch([gb EXCEPT !.Z = None, !.N = None, !.H = None,
                                     !.C = None, !.cycles = cycles],
                          opcode, raw, arg),
                 flags, 1))

(***************************************************************************)
(* display.py: rendering one scanline.  The host windows are not part of   *)
(* the state; the pixel lists handed to them are.                          *)
(***************************************************************************)
\* self.ram.offset
ram_offset == \h8000

\* Display.tile_table_address: <<address, signed>>.
tile_table_address(d) ==
    IF BitAnd(d.LCDCONT, ShiftL(1, 3)) = 0 THEN <<\h9800, FALSE>>
    ELSE <<\h9c00, TRUE>>

tile_data_address(d) ==
    IF BitAnd(d.LCDCONT, ShiftL(1, 4)) = 0 THEN \h8800 ELSE \h8000

\* The `colors` tuple with the two bitplanes exchanged.
TileColor_exchanged(a, b, n) ==
    LET bit == 7 - n
    IN BitOr(ShiftR(BitAnd(b, ShiftL(1, bit)), bit),
             ShiftL(ShiftR(BitAnd(a, ShiftL(1, bit)), bit), 1))

\* The n-th entry of the `colors` tuple of the bitplane bytes a and b.
TileColor(a, b, n) ==
    LET bit == 7 - n
    IN BitOr(ShiftR(BitAnd(a, ShiftL(1, bit)), bit),
             ShiftL(ShiftR(BitAnd(b, ShiftL(1, bit)), bit), 1))

\* for n, color in enumerate(colors): pixels[color] += [x+n, y]
RECURSIVE PutColors(_, _, _, _, _, _)
PutColors(pixels, a, b, x, y, n) ==
    IF n > 7 THEN pixels
    ELSE PutColors([pixels EXCEPT ![TileColor(a, b, n)] = @ \o <<x + n, y>>],
                   a, b, x, y, n + 1)

\* The tile loop of render_background_scanline, for index in lo..hi, from
\* r = <<exception, pixels>> to the same pair afterwards.  The iterations run
\* in order: those of the lower half of lo..hi, then those of the upper half.
RECURSIVE BackgroundTiles(_, _, _, _, _, _, _, _, _)
BackgroundTiles(d, r, table, signed, bitmap, index_offset, y, lo, hi) ==
    IF r[1] # NoError THEN r
    ELSE IF lo < hi
    THEN BackgroundTiles(d,
             BackgroundTiles(d, r, table, signed, bitmap, index_offset, y,
                             lo, (lo + hi) \div 2),
             table, signed, bitmap, index_offset, y, (lo + hi) \div 2 + 1, hi)
    ELSE LET t == MemoryGetitem(d.ram, table + index_offset + lo)
             tile == 16 * (IF signed THEN u8_to_signed(t[2]) ELSE t[2])
             a == MemoryGetitem(d.ram, bitmap + tile)
             b == MemoryGetitem(d.ram, bitmap + tile + 1)
         IN IF t[1] # NoError THEN <<t[1], r[2]>>
            ELSE IF a[1] # NoError THEN <<a[1], r[2]>>
            ELSE IF b[1] # NoError THEN <<b[1], r[2]>>
            ELSE <<NoError, PutColors(r[2], a[2], b[2], 8 * lo, y, 0)>>

\* Display.render_background_scanline.
render_background_scanline(gb, y) ==
    LET d == gb.display
        ypos == BitAnd(y, 248)
        r == BackgroundTiles(d, <<NoError, d.pixels>>,
                             tile_table_address(d)[1] - ram_offset,
                             tile_table_address(d)[2],
                             tile_data_address(d) - ram_offset + (y - ypos) * 2,
                             ShiftL(ypos, 2), y, 0, 31)
    IN IF gb.raised # NoError THEN gb
       ELSE IF r[1] # NoError
            THEN Raise([gb EXCEPT !.display.pixels = r[2]], r[1])
            ELSE [gb EXCEPT !.display.pixels = r[2]]

\* The tile loop of render_tile_window, for index in lo..hi, from
\* r = <<exception, pixels>> to the same pair afterwards, in order.
RECURSIVE WindowTiles(_, _, _, _, _, _, _)
WindowTiles(d, r, bitmap, index_offset, y, lo, hi) ==
    IF r[1] # NoError THEN r
    ELSE IF lo < hi
    THEN WindowTiles(d,
             WindowTiles(d, r, bitmap, index_offset, y, lo, (lo + hi) \div 2),
             bitmap, index_offset, y, (lo + hi) \div 2 + 1, hi)
    ELSE LET tile == 16 * ((index_offset + lo) % 256)
             a == MemoryGetitem(d.ram, bitmap + tile)
             b == MemoryGetitem(d.ram, bitmap + tile + 1)
         IN IF a[1] # NoError THEN <<a[1], r[2]>>
            ELSE IF b[1] # NoError THEN <<b[1], r[2]>>
            ELSE <<NoError, PutColors(r[2], a[2], b[2], 8 * lo, y, 0)>>

\* Display.render_tile_window.
render_tile_window(gb, y) ==
    LET d == gb.display
        ypos == BitAnd(y, 248)
        base == IF y < 64 THEN \h8800 - ram_offset ELSE \h8000 - ram_offset
        r == WindowTiles(d, <<NoError, d.tile_pixels>>, base + (y - ypos) * 2,
                         ShiftL(ypos, 2), y, 0, 31)
    IN IF gb.raised # NoError THEN gb
       ELSE IF ~(y < 128) THEN gb
       ELSE IF r[1] # NoError
            THEN Raise([gb EXCEPT !.display.tile_pixels = r[2]], r[1])
            ELSE [gb EXCEPT !.display.tile_pixels = r[2]]

\* The host colours of read_palette.
colors == <<\hffffff, \haaaaaa, \h555555, \h000000>>

NoPixels == [color \in 0..3 |-> <<>>]

\* Display.read_palette.
read_palette(d) ==
    [d EXCEPT !.palette =
        [i \in 0..3 |-> colors[1 + ShiftR(BitAnd(d.BGPAL, ShiftL(3, 2 * i)), 2 * i)]]]

\* An increment of LY without the `% 0x100`.
ly_rollover_unreduced(d) == [d EXCEPT !.LY = d.LY + 1]

\* Display.ly_rollover: the display after the increment (it rolled over
\* when LY is 0 afterwards).
ly_rollover(d) == [d EXCEPT !.LY = (d.LY + 1) % \h100]

\* Display.flush_pixels and Display.flush_tile_pixels.
flush_pixels(d) == [d EXCEPT !.pixels = NoPixels]

flush_tile_pixels(d) == [d EXCEPT !.tile_pixels = NoPixels]

\* Display.step.
DisplayStep(gb) ==
    LET g1 == IF background_display(gb.display)
              THEN render_tile_window(
                       render_background_scanline(gb, gb.display.LY),
                       gb.display.LY)
              ELSE gb
        d1 == ly_rollover(g1.display)
    IN IF gb.raised # NoError THEN gb
       ELSE IF ~screen_on(gb.display) THEN gb
       ELSE IF g1.raised # NoError THEN g1
       ELSE IF d1.LY = 0
            THEN [g1 EXCEPT !.display =
                     flush_tile_pixels(flush_pixels(read_palette(d1)))]
            ELSE [g1 EXCEPT !.display = d1]

(***************************************************************************)
(* util.py: the post-boot snapshot and check_boot.                         *)
(***************************************************************************)
POST_BOOT_STATE_memory ==
       \hff05 :> \h00
    @@ \hff06 :> \h00
    @@ \hff07 :> \h00
    @@ \hff10 :> \h80
    @@ \hff11 :> \hbf
    @@ \hff12 :> \hf3
    @@ \hff14 :> \hbf
    @@ \hff16 :> \h3f
    @@ \hff17 :> \h00
    @@ \hff19 :> \hbf
    @@ \hff1a :> \h7f
    @@ \hff1b :> \hff
    @@ \hff1c :> \h9f
    @@ \hff1e :> \hbf
    @@ \hff20 :> \hff
    @@ \hff21 :> \h00
    @@ \hff22 :> \h00
    @@ \hff23 :> \hbf
    @@ \hff24 :> \h77
    @@ \hff25 :> \hf3
    @@ \hff26 :> \hf1
    @@ \hff40 :> \h91
    @@ \hff42 :> \h00
    @@ \hff43 :> \h00
    @@ \hff45 :> \h00
    @@ \hff47 :> \hfc
    @@ \hff48 :> \hff
    @@ \hff49 :> \hff
    @@ \hff4a :> \h00
    @@ \hff4b :> \h00
    @@ \hffff :> \h00

\* check_boot: a register that differs is only logged (the assignment to
\* `ok` inside assert_register binds a local); a memory cell that differs
\* makes the result False.
check_boot(gb) ==
    \A address \in DOMAIN POST_BOOT_STATE_memory :
        Peek(gb, address) = POST_BOOT_STATE_memory[address]

(***************************************************************************)
(* cpu.py: CPU.step.                                                       *)
(***************************************************************************)
\* int((MHz*1e6 / fps) / scanlines) with MHz = 4.194304, fps = 59.7 and
\* scanlines = 154.
screen_cycles == ((4194304 * 10) \div 597) \div 154

\* CPU.step after the instruction and the display: the check of the boot
\* state when the instruction switched the boot ROM off.
StepChecked(boot_rom, g2) ==
    IF g2.raised = NoError /\ boot_rom /\ ~g2.memory.boot_rom_active
       /\ ~check_boot(g2)
    THEN Raise(g2, EmulatorError)
    ELSE g2

\* CPU.step after execute, were the cycles not reduced at the display's turn.
StepExecuted_unreduced(boot_rom, g1) ==
    StepChecked(boot_rom,
                IF g1.raised = NoError /\ g1.cpu.cycles >= screen_cycles
                THEN DisplayStep(g1)
                ELSE g1)

\* CPU.step after execute: the display's turn when the cycles are used up.
StepExecuted(boot_rom, g1) ==
    StepChecked(boot_rom,
                IF g1.raised = NoError /\ g1.cpu.cycles >= screen_cycles
                THEN DisplayStep([g1 EXCEPT !.cpu.cycles = @ % screen_cycles])
                ELSE g1)

\* CPU.step after decode.
StepDecoded(boot_rom, d) ==
    StepExecuted(boot_rom,
                 execute(d.gb, d.opcode, d.length, d.cycles, d.flags, d.raw, d.arg))

\* CPU.step after fetch.
StepFetched(gb, opcode) ==
    IF opcode[1] # NoError THEN Raise(gb, opcode[1])
    ELSE StepDecoded(gb.memory.boot_rom_active, decode(gb, opcode[2]))

step(gb) == StepFetched(gb, fetch(gb))

(***************************************************************************)
(* gameboy.py and __main__.py: construction and the --skip-boot option.    *)
(***************************************************************************)
\* Display.__init__; `ram` is the randomized content of the video RAM.
Display(ram) ==
    [ram |-> ram, LY |-> 0, SCY |-> 0, SCX |-> 0, BGPAL |-> 0, LCDCONT |-> 0,
     palette |-> [i \in 0..3 |-> colors[i + 1]],
     pixels |-> NoPixels, tile_pixels |-> NoPixels]

\* CPU.__init__.
CPU == [registers |-> [i \in 0..11 |-> 0], IME |-> FALSE,
        cycles |-> 0, total_cycles |-> 0]

\* The addresses i of range(0xc000, 0xde01) at which the work RAM holds
\* something else than its fill byte at i or at i + 0x1000.
MirrorCells(gb) ==
    LET cells == {\hc000 + k : k \in DOMAIN gb.memory.internal_work_ram.data}
    IN {i \in cells \cup {j - \h1000 : j \in cells} : \hc000 <= i /\ i < \hde01}

\* for i in range(0xc000, 0xde01): self[i] = self[i + 0x1000], from the
\* least address of `todo` on.  An iteration at which both cells hold the
\* fill byte stores the byte that is already there (and an iteration only
\* changes the cell i), so the loop is evaluated at the other addresses.
RECURSIVE MirrorLoop(_, _)
MirrorLoop(gb, todo) ==
    IF todo = {} THEN gb
    ELSE LET i == CHOOSE j \in todo : \A k \in todo : j <= k
         IN Then(Load(gb, i + \h1000, LAMBDA x: Setitem(gb, i, x)),
                 LAMBDA g: MirrorLoop(g, todo \ {i}))

\* MemoryController.__init__ inside Gameboy.__init__; the arguments after
\* the cartridge are the randomized contents of RAM bank 0 and of the
\* internal work RAM.  fixed_home and home hold the index of the bank they
\* refer to.
MemoryController(boot_rom, disp, cart, ram_bank, work_ram) ==
    LET gb ==  [cpu |-> CPU,
                memory |-> [boot_rom |-> boot_rom, boot_rom_active |-> TRUE,
                            fixed_home |-> 0, home |-> 1,
                            internal_work_ram |-> work_ram,
                            expanded_work_ram |-> ram_bank],
                display |-> disp, cartridge |-> cart, raised |-> NoError,
                Z |-> None, N |-> None, H |-> None, C |-> None,
                cycles |-> <<>>]
    IN MirrorLoop(gb, MirrorCells(gb))

\* Gameboy.__init__.
Gameboy(cart, boot_rom, video_ram, ram_bank, work_ram) ==
    MemoryController(Memory(boot_rom.length, boot_rom.fill, boot_rom.data,
                            TRUE, "Nintendo boot ROM"),
                     Display(video_ram), cart, ram_bank, work_ram)

\* The memory writes of the --skip-boot block, in order.
skip_boot_writes ==
    <<<<\hff05, \h00>>, <<\hff06, \h00>>, <<\hff07, \h00>>, <<\hff10, \h80>>,
      <<\hff11, \hbf>>, <<\hff12, \hf4>>, <<\hff14, \hbf>>, <<\hff16, \h3f>>,
      <<\hff17, \h00>>, <<\hff19, \hbf>>, <<\hff1a, \h7f>>, <<\hff1b, \hff>>,
      <<\hff1c, \h9f>>, <<\hff1e, \hbf>>, <<\hff20, \hff>>, <<\hff21, \h00>>,
      <<\hff22, \h00>>, <<\hff23, \hbf>>, <<\hff24, \h77>>, <<\hff25, \hf3>>,
      <<\hff26, \hf1>>, <<\hff40, \h91>>, <<\hff42, \h00>>, <<\hff43, \h00>>,
      <<\hff45, \h00>>, <<\hff47, \hfc>>, <<\hff48, \hff>>, <<\hff49, \hff>>,
      <<\hff4a, \h00>>, <<\hff4b, \h00>>, <<\hffff, \h00>>>>

\* The writes lo..hi of `writes`, in order (the lower half of lo..hi, then
\* the upper half); an exception ends them.
RECURSIVE SetitemAll(_, _, _, _)
SetitemAll(gb, writes, lo, hi) ==
    IF lo < hi
    THEN Then(SetitemAll(gb, writes, lo, (lo + hi) \div 2),
              LAMBDA g: SetitemAll(g, writes, (lo + hi) \div 2 + 1, hi))
    ELSE Setitem(gb, writes[lo][1], writes[lo][2])

\* main: the block under `if opt.skip_boot`.
skip_boot(gb) ==
    LET g1 == SetReg16(gb, AF, \h0001)
        g2 == SetReg16(g1, BC, \h0013)
        g3 == SetReg16(g2, DE, \h00d8)
        g4 == SetReg16(g3, HL, \h014f)
        g5 == SetReg16(g4, PC, \h0100)
        g6 == SetReg16(g5, SP, \hfffe)
        g7 == [g6 EXCEPT !.memory.boot_rom_active = FALSE]
    IN SetitemAll(g7, skip_boot_writes, 1, Len(skip_boot_writes))

(***************************************************************************)
(* The inputs: ROM images and power-on RAM contents.                       *)
(***************************************************************************)
\* A byte array of `length` bytes, all `fill` except at the cells in `data`.
Image(length, fill, data) ==
    [length |-> length, fill |-> fill,
     data |-> [i \in {j \in DOMAIN data : data[j] # fill} |-> data[i]]]

\* A cartridge file of `banks` 16 kB banks whose header byte 0x148 holds
\* `code`; it holds `program` where that says, else bank b holds 0x10+b at
\* offset 0, 0x20+b at offset 1 and 0x30+b at its last offset, and 0xff
\* elsewhere.
RomImage(banks, code, program) ==
    Image(banks * BankSize, \hff,
          (\h148 :> code) @@ program @@
          [i \in {b * BankSize + k : b \in 0..(banks - 1), k \in {0, 1, BankSize - 1}}
              |-> (CASE i % BankSize = 0 -> \h10
                     [] i % BankSize = 1 -> \h20
                     [] OTHER -> \h30) + (i \div BankSize)])

\* The boot ROM file: 256 bytes.
BootImage(program) == Image(\h100, \h00, program)

\* Randomized RAM: a Memory with arbitrary content.
RandomMemory(length, fill, data, name) ==
    Memory(length, fill, Image(length, fill, data).data, FALSE, name)

\* Cartridges: header and file agree on 2 and on 4 banks; the header
\* promises 4 banks and the file has 2; the header code is not in the table.
Roms ==
    {RomImage(2, \h00, <<>>), RomImage(4, \h01, <<>>),
     RomImage(2, \h01, <<>>), RomImage(4, \h07, <<>>)}

\* Power-on contents of the internal work RAM: all zero, and two patterns
\* that differ between 0xc000.., 0xd000.. and 0xe000...
WorkRams ==
    {RandomMemory(\h4000, \h00, <<>>, "Internal work RAM"),
     RandomMemory(\h4000, \h5a, (\h0000 :> \h01) @@ (\h1000 :> \h02) @@ (\h2000 :> \h03),
                  "Internal work RAM"),
     RandomMemory(\h4000, \hff, (\h0e01 :> \h04) @@ (\h1dff :> \h05) @@ (\h3f50 :> \h06),
                  "Internal work RAM")}

VideoRam == RandomMemory(\h2000, \hc3, (\h0000 :> \h07) @@ (\h1fff :> \h08), "Display RAM")

RamBank == RandomMemory(\h2000, \h3c, (\h0000 :> \h09), "RAM bank 0")

BusBootImage == BootImage((\h00 :> \h31) @@ (\h01 :> \hfe) @@ (\hff :> \h50))

(***************************************************************************)
(* The state of the model and its operations.                              *)
(***************************************************************************)
\* The machine held by the variables.
Machine ==
    [cpu |-> cpu, memory |-> memory, display |-> display,
     cartridge |-> cartridge, raised |-> NoError,
     Z |-> None, N |-> None, H |-> None, C |-> None, cycles |-> <<>>]

\* The variables take the objects of the machine gb.
Becomes(gb) ==
    /\ cpu' = gb.cpu
    /\ memory' = gb.memory
    /\ display' = gb.display
    /\ cartridge' = gb.cartridge
    /\ raised' = gb.raised

\* What is recorded about the last operation: its kind, the address and
\* value of a bus write, the CPU before the operation and the value of the
\* most recent bus write below 0x8000 (None before the first one).
Observed(op, address, value, request) ==
    [op |-> op, address |-> address, value |-> value, cpu |-> cpu,
     request |-> request]

\* The debugger and the run loop go on after an EmulatorError; any other
\* exception ends the program.
Continuable ==
    raised \in {NoError, EmulatorError, unknown_opcode, not_implemented,
                MemoryError, OpcodeError, InvalidOpcodeError}

MaxWrites == 2

\* The addresses and values of the bus writes: a bank-switch request at
\* either end of the ROM area, video RAM, the work RAM and its mirror at
\* their boundaries, the LCD registers (LCDC, SCY, SCX, LY, BGP), the
\* boot-ROM switch and the last address.
WriteAddresses ==
    {\h2000, \h7fff, \h8000, \ha000, \hc000, \hd000, \hddff, \hde00,
     \he000, \hfe00, \hff40, \hff42, \hff43, \hff44, \hff47, \hff50, \hffff}

WriteValues == {\h00, \h02, \h03, \h04, \h91, \hff}

InitBus ==
    /\ \E rom \in Roms, work_ram \in WorkRams :
          LET gb == Gameboy(Cartridge(rom), BusBootImage, VideoRam, RamBank, work_ram)
          IN /\ cpu = gb.cpu
             /\ memory = gb.memory
             /\ display = gb.display
             /\ cartridge = gb.cartridge
             /\ raised = gb.raised
    /\ last = [op |-> "init", address |-> None, value |-> None, cpu |-> cpu,
               request |-> None]
    /\ history = <<>>
    /\ steps = 0

\* memory[address] = value: a bus write (the debugger's `z address value`).
Write(address, value) ==
    /\ Continuable
    /\ steps < MaxWrites
    /\ Becomes(Setitem(Machine, address, value))
    /\ last' = Observed("write", address, value,
                        IF address < \h8000 THEN value ELSE last.request)
    /\ history' = history
    /\ steps' = steps + 1

\* main with --skip-boot: the block runs right after construction.
SkipBoot ==
    /\ last.op = "init"
    /\ Becomes(skip_boot(Machine))
    /\ last' = Observed("skip_boot", None, None, last.request)
    /\ history' = history
    /\ steps' = steps

NextBus ==
    \/ \E address \in WriteAddresses, value \in WriteValues : Write(address, value)
    \/ SkipBoot

SpecBus == InitBus /\ [][NextBus]_vars

(***************************************************************************)
(* Runs of the CPU: CPU.step from the debugger's `s` and from CPU.run.     *)
(***************************************************************************)
MaxSteps == 4

\* The bytes of a program as memory cells from address pc on.
CodeAt(pc, bytes) == [a \in pc..(pc + Len(bytes) - 1) |-> bytes[a - pc + 1]]

\* How the boot ROM begins: LD SP,0xfffe; XOR A; LD HL,0x9fff; then the
\* loop LD (HL-),A; BIT 7,H; JR NZ,-5.
BootProgram ==
    <<\h31, \hfe, \hff, \haf, \h21, \hff, \h9f, \h32, \hcb, \h7c, \h20, \hfb>>

CpuBootImage == BootImage(CodeAt(\h0000, BootProgram))

\* The machine main() builds for a cartridge of two banks that holds `code`
\* (cells below 0x8000) and whose work RAM powers up holding the rest of
\* `code` (cells from 0xc000 on) and zero elsewhere.
Loaded(code) ==
    Gameboy(Cartridge(RomImage(2, \h00,
                               [a \in {b \in DOMAIN code : b < \h8000} |-> code[a]])),
            CpuBootImage, VideoRam, RamBank,
            RandomMemory(\h4000, \h00,
                         [o \in {b - \hc000 : b \in {c \in DOMAIN code : c >= \hc000}}
                             |-> code[o + \hc000]],
                         "Internal work RAM"))

\* The register array holding the given pairs.
RegisterFile(pc, sp, af, bc, de, hl) ==
    set16be(set16be(set16be(set16be(set16be(set16be(
        CPU.registers, PC, pc), SP, sp), AF, af), BC, bc), DE, de), HL, hl)

\* Where the cartridge's code starts in these runs.
Entry == \h0150

\* Register contents in the middle of a run (the low nibble of F is zero):
\* the stack pointer at the top of RAM, one above it, at both ends of the
\* address space and inside the work RAM; A equal to, above and below the
\* operands; HL at the end of the address space, in video and in work RAM.
RegisterFiles ==
    {RegisterFile(Entry, \hfffe, \h90f0, \h9013, \h00d8, \h014f),
     RegisterFile(Entry, \hffff, \h1000, \h010f, \hfff1, \hffff),
     RegisterFile(Entry, \h0001, \h0080, \h1234, \h5678, \h9fff),
     RegisterFile(Entry, \h0000, \hff10, \h120f, \h8000, \hc000),
     RegisterFile(Entry, \hdff0, \h3c00, \habcd, \h0001, \h8000),
     RegisterFile(Entry, \hc100, \h8050, \h00ff, \hc0de, \hfffe)}

\* The operand bytes that follow an opcode.
OperandPairs == {<<\h90, \hc0>>, <<\hfb, \hff>>, <<\h00, \h02>>, <<\hff, \h9f>>}

\* Every opcode byte with each operand pair, and the prefix 0xcb with
\* every second byte.
Instructions ==
    {<<op, o[1], o[2]>> : op \in (0..255) \ {\hcb}, o \in OperandPairs}
    \cup {<<\hcb, x, \h00>> : x \in 0..255}

PushOpcodes == {\hc5, \hd5, \he5, \hf5}

PopOpcodes == {\hc1, \hd1, \he1, \hf1}

\* Programs of several instructions: PUSH then POP, two PUSHes then two
\* POPs, CALL 0x0200 with a RET at 0x0200, two JRs across the ends of the
\* address space, LDH (0x50),A, STOP followed by the byte 0x10, and
\* EI; NOP; DI; RETI.
Programs ==
    {CodeAt(Entry, <<a, b>>) : a \in PushOpcodes, b \in PopOpcodes}
    \cup {CodeAt(Entry, <<a, b, c, d>>) :
            a \in {\hc5, \hf5}, b \in {\hd5, \he5}, c \in {\hc1, \he1}, d \in {\hd1, \hf1}}
    \cup {CodeAt(Entry, <<\hcd, \h00, \h02>>) @@ CodeAt(\h0200, <<\hc9>>)}
    \cup {CodeAt(\h0000, <<\h18, \hfb>>), CodeAt(\hfffd, <<\h18, \h05>>)}
    \cup {CodeAt(Entry, <<\he0, \h50>>), CodeAt(Entry, <<\h10, \h00, \h10>>)}
    \cup {CodeAt(Entry, <<\hfb, \h00, \hf3, \hd9>>)}

\* A machine in the middle of a run: the boot was skipped, the program has
\* since loaded the registers, and some cycles of the scanline are spent.
Running(code, registers, cycles) ==
    [skip_boot(Loaded(code)) EXCEPT !.cpu.registers = registers,
                                    !.cpu.cycles = cycles,
                                    !.cpu.total_cycles = cycles]

\* Such a machine while the display is at line `ly` of the frame.
MidFrame(code, registers, cycles, ly) ==
    [Running(code, registers, cycles) EXCEPT !.display.LY = ly]

\* A program that stores to LY: LDH (0x44),A and NOPs.
LyStore == CodeAt(Entry, <<\he0, \h44, \h00, \h00>>)

\* How the boot ROM ends: LDH (0x50),A at 0x00fe, which switches it off.
BootEndImage == BootImage(CodeAt(\h00fe, <<\he0, \h50>>))

\* The registers at that instruction: those of the snapshot of util.py (with
\* PC two below), those that main's skip-boot block sets, and those of the
\* snapshot but for SP.
BootEndRegisters ==
    {RegisterFile(\h00fe, \hfffe, \h01b0, \h0013, \h00d8, \h01fd),
     RegisterFile(\h00fe, \hfffe, \h0001, \h0013, \h00d8, \h014f),
     RegisterFile(\h00fe, \hfffd, \h01b0, \h0013, \h00d8, \h01fd)}

\* What the boot ROM has written by then: the cells of the snapshot, the
\* cells as main's skip-boot block writes them (0xff12 differs), nothing.
BootEndWrites ==
    {[skip_boot_writes EXCEPT ![6] = <<\hff12, \hf3>>], skip_boot_writes,
     <<<<\hff05, \h00>>>>}

\* A machine about to execute the last instruction of the boot ROM.
AtBootEnd(registers, writes) ==
    [SetitemAll(Gameboy(Cartridge(RomImage(2, \h00, <<>>)), BootEndImage,
                        VideoRam, RamBank,
                        RandomMemory(\h4000, \h00, <<>>, "Internal work RAM")),
                writes, 1, Len(writes))
        EXCEPT !.cpu.registers = registers]

\* The states the CPU specification starts from: a machine right after
\* construction (the boot ROM is about to run), machines at the end of the
\* boot ROM, and machines in the middle of a run, about to execute an
\* instruction or a program, some of them in the middle of a frame.
Init ==
    /\ \E gb \in {Loaded(CodeAt(\h0100, <<\h00, \hc3, \h50, \h01>>))}
             \cup {AtBootEnd(r, w) : r \in BootEndRegisters, w \in BootEndWrites}
             \cup {Running(CodeAt(Entry, i), r, 0) :
                       i \in Instructions, r \in RegisterFiles}
             \cup {Running(code, set16be(r, PC, CHOOSE a \in DOMAIN code :
                                                  \A b \in DOMAIN code : a <= b),
                           cycles) :
                       code \in Programs, r \in RegisterFiles, cycles \in {0, 452}}
             \cup {MidFrame(LyStore, r, cycles, 127) :
                       r \in RegisterFiles, cycles \in {0, 452}} :
          /\ cpu = gb.cpu
          /\ memory = gb.memory
          /\ display = gb.display
          /\ cartridge = gb.cartridge
          /\ raised = gb.raised
    /\ last = [op |-> IF cpu = CPU THEN "init" ELSE "running",
               address |-> None, value |-> None, cpu |-> cpu, request |-> None]
    /\ history = <<>>
    /\ steps = 0

\* CPU.step: one instruction, the display's turn and the check after boot.
Step ==
    /\ Continuable
    /\ steps < MaxSteps
    /\ Becomes(step(Machine))
    /\ last' = Observed("step", Reg16(Machine, PC),
                        Peek(Machine, Reg16(Machine, PC)), last.request)
    /\ history' = Append(history, last')
    /\ steps' = steps + 1

Next ==
    \/ Step
    \/ SkipBoot

Spec == Init /\ [][Next]_vars

(***************************************************************************)
(* The boot ROM's first loop: CPU.run from power-on until the loop that    *)
(* clears the video RAM is left.                                           *)
(***************************************************************************)
\* The address of LD (HL-),A, of the JR NZ and of the instruction after it.
LoopStart == \h0007

LoopJump == \h000a

LoopExit == \h000c

\* Power-on contents of the video RAM: cells that are not zero at both ends
\* of the range, around its middle and next to the ends.
VideoRams ==
    {RandomMemory(\h2000, \h00,
                  (\h0000 :> \h07) @@ (\h0fff :> \h55) @@ (\h1000 :> \haa)
                  @@ (\h1fff :> \h08), "Display RAM"),
     RandomMemory(\h2000, \h00,
                  (\h0001 :> \hc3) @@ (\h00ff :> \hff) @@ (\h0100 :> \h01)
                  @@ (\h1ffe :> \h80), "Display RAM")}

InitLoop ==
    /\ \E video_ram \in VideoRams :
          LET gb == Gameboy(Cartridge(RomImage(2, \h00, <<>>)), CpuBootImage,
                            video_ram, RamBank,
                            RandomMemory(\h4000, \h00, <<>>, "Internal work RAM"))
          IN /\ cpu = gb.cpu
             /\ memory = gb.memory
             /\ display = gb.display
             /\ cartridge = gb.cartridge
             /\ raised = gb.raised
    /\ last = [op |-> "init", address |-> None, value |-> None, cpu |-> cpu,
               request |-> None]
    /\ history = <<>>
    /\ steps = 0

\* CPU.run: step after step; the run is followed until it leaves the loop.
RunStep ==
    /\ raised = NoError
    /\ Reg16(Machine, PC) # LoopExit
    /\ \E gb \in {step(Machine)} : Becomes(gb)
    /\ last' = Observed("step", Reg16(Machine, PC),
                        Peek(Machine, Reg16(Machine, PC)), last.request)
    /\ history' = history
    /\ steps' = steps + 1

NextLoop == RunStep

\* A step of the run is taken: what RunStep requires, and its count.  Every
\* RunStep is such a step, and one is possible exactly when RunStep is.
RunGoesOn ==
    /\ raised = NoError
    /\ Reg16(Machine, PC) # LoopExit
    /\ steps' = steps + 1

\* CPU.run is `while True: self.step()`: a step that can be taken is taken.
SpecLoop == InitLoop /\ [][NextLoop]_vars /\ WF_steps(RunGoesOn)

(***************************************************************************)
(* Properties of the bus, checked under SpecBus.                           *)
(***************************************************************************)
\* The work-RAM cells that hold something else than the fill byte, as bus
\* addresses, and their neighbours 0x1000 below.  At every other address a
\* of 0xc000..0xddff both a and a + 0x1000 read the fill byte.
MirrorDeviations ==
    {a \in MirrorCells(Machine) : a <= \hddff}

\* C3: right after construction and after any sequence of bus writes,
\* read(a) = read(a + 0x1000) for every a in 0xc000..0xddff.
C3_MirrorHolds ==
    \A a \in MirrorDeviations : Peek(Machine, a) = Peek(Machine, a + \h1000)

\* C3 at construction only: the constructor's loop leaves 0xc000 + k equal
\* to 0xd000 + k for every k.
C3_MirrorAtConstruction ==
    last.op = "init" => C3_MirrorHolds

\* A state in which the mirror does hold after a write into it.
C3_Witness ==
    /\ last.op = "write" /\ last.address = \hc000 /\ last.value = \h91
    /\ C3_MirrorHolds

\* The byte k of cartridge bank b.
BankByte(b, k) == ArrayGet(cartridge.rom_bank[b + 1], k)

\* The addresses of 0x0000..0x00ff read: both ends, the middle, and every
\* address at which the boot ROM or bank 0 holds something else than its
\* fill byte.
BootWindowAddresses ==
    {\h00, \h80, \hff}
    \cup {a \in DOMAIN memory.boot_rom.data \cup DOMAIN cartridge.rom_bank[1].data :
            a <= \hff}

\* Every read of 0x0000..0x00ff returns the boot ROM's byte while
\* boot_rom_active, and bank 0's byte once it is false.
BootWindow ==
    \A a \in BootWindowAddresses :
        Getitem(Machine, a) =
            <<NoError, IF memory.boot_rom_active
                       THEN ArrayGet(memory.boot_rom, a) ELSE BankByte(0, a)>>

SelectedBank(v, n) == IF v % n = 0 THEN 1 ELSE v % n

\* C5: the bank mapped at 0x4000..0x7fff is one of the banks 1..N-1 and never
\* bank 0; it is bank 1 at construction, and a write below 0x8000 of a value
\* that is a multiple of the bank count selects bank 1.
C5_HomeNeverBankZero ==
    /\ memory.home \in 1..(Len(cartridge.rom_bank) - 1)
    /\ Region(Machine, memory_map(Machine, \h4000)[1]) = cartridge.rom_bank[memory.home + 1]
    /\ Peek(Machine, \h4000) = BankByte(memory.home, 0)
    /\ Peek(Machine, \h4000) # BankByte(0, 0)
    /\ last.op = "init" => memory.home = 1
    /\ (/\ last.op = "write" /\ last.address < \h8000 /\ raised = NoError
        /\ last.value % rom_banks(cartridge) = 0) => memory.home = 1

\* A write of the bank count itself (not of 0) has selected bank 1.
C5_Witness ==
    /\ last.op = "write" /\ last.address = \h2000 /\ last.value = \h04
    /\ rom_banks(cartridge) = 4 /\ memory.home = 1 /\ raised = NoError
    /\ Peek(Machine, \h4000) = \h11

\* The cartridge file holds as many banks as its header byte 0x148 says
\* (codes 0 and 1: 2 and 4 banks).
HeaderMatchesFile ==
    LET code == ArrayGet(cartridge.rom_bank[1], \h148)
    IN code \in {0, 1} /\ Len(cartridge.rom_bank) = ShiftL(2, code)

BankOffsets == {\h0000, \h0001, \h0148, \h2000, \h3fff}

\* After a write of v below 0x8000 to a cartridge of N banks, home is the
\* bank b = v mod N, or 1 if that is 0, and stays so until the next such
\* write; reads of 0x0100..0x3fff return bank 0.
BankSelected ==
    (last.request # None /\ HeaderMatchesFile) =>
        LET b == SelectedBank(last.request, Len(cartridge.rom_bank))
        IN /\ memory.home = b
           /\ \A k \in BankOffsets :
                 Getitem(Machine, \h4000 + k) = <<NoError, BankByte(b, k)>>
           /\ \A a \in {\h0100, \h0148, \h2000, \h3fff} :
                 Getitem(Machine, a) = <<NoError, BankByte(0, a)>>

Stepped(ops) == last.op = "step" /\ last.value \in ops /\ raised = NoError

\* A register pair before the step just taken, and now.
Before16(index) == get16be(last.cpu.registers, index)

Now16(index) == get16be(cpu.registers, index)

\* C1: after any sequence of CPU steps A, F, B, C, D, E, H, L are in
\* 0..0xff and SP, PC in 0..0xffff; SP after PUSH/CALL and after POP/RET,
\* PC after JR and HL after ADD HL,rr are the exact result modulo 0x10000.
C1_RegistersInRange ==
    /\ \A i \in {A, F, B, C, D, E, H, L} : Reg8(Machine, i) \in 0..\hff
    /\ \A i \in {SP, SP + 1, PC, PC + 1} : Reg8(Machine, i) \in 0..\hff
    /\ Now16(SP) \in 0..\hffff /\ Now16(PC) \in 0..\hffff
    /\ Stepped(PushOpcodes \cup {\hcd}) => Now16(SP) = (Before16(SP) - 2) % \h10000
    /\ Stepped(PopOpcodes \cup {\hc9}) => Now16(SP) = (Before16(SP) + 2) % \h10000
    /\ Stepped({\h18}) =>
          Now16(PC) = (last.address + 2
                       + u8_to_signed(Peek(Machine, last.address + 1))) % \h10000
    /\ Stepped({\h09}) => Now16(HL) = (Before16(HL) + Before16(BC)) % \h10000
    /\ Stepped({\h19}) => Now16(HL) = (Before16(HL) + Before16(DE)) % \h10000
    /\ Stepped({\h29}) => Now16(HL) = (Before16(HL) + Before16(HL)) % \h10000

\* A PUSH with SP = 1 has left SP = 0xffff.
C1_Witness ==
    /\ Stepped(PushOpcodes) /\ Before16(SP) = \h0001 /\ Now16(SP) = \hffff

\* Other wraps that are reached: POP at 0xffff, JR backwards from 0x0000
\* and forwards from 0xfffd, ADD HL,BC past 0xffff.
C1_WrapsReached ==
    \/ Stepped(PopOpcodes) /\ Before16(SP) = \hffff /\ Now16(SP) = \h0001
    \/ Stepped({\h18}) /\ last.address = \h0000 /\ Now16(PC) = \hfffd
    \/ Stepped({\h18}) /\ last.address = \hfffd /\ Now16(PC) = \h0004
    \/ Stepped({\h09}) /\ Before16(HL) = \hffff /\ Now16(HL) = \h010e

\* C2: in every reachable state the low four bits of F are zero, also
\* after POP AF and after the skip-boot initialisation of AF.
C2_FLowNibbleZero ==
    Reg8(Machine, F) % 16 = 0

\* POP AF has run on a stack whose low byte PUSH BC stored.
C2_AfterPushPopAF ==
    /\ Stepped({\hf1}) /\ Len(history) = 2 /\ history[1].value = \hc5
    /\ get16be(history[1].cpu.registers, SP) = \hdff0
    /\ history[1].cpu.registers[F] % 16 = 0

C2_PopAFKeepsNibble ==
    C2_AfterPushPopAF => Reg8(Machine, F) % 16 = 0

C2_SkipBootKeepsNibble ==
    last.op = "skip_boot" => Reg8(Machine, F) % 16 = 0

\* The i-th step before the last one (0: the last one).
Ago(i) == history[Len(history) - i]

PairOf(op) ==
    CASE op \in {\hc5, \hc1} -> BC
      [] op \in {\hd5, \hd1} -> DE
      [] op \in {\he5, \he1} -> HL
      [] op \in {\hf5, \hf1} -> AF

LcdRegisters == {\hff40, \hff42, \hff43, \hff44, \hff47}

\* The n stack entries below s, as the specification lays the stack out
\* (PUSH stores at SP-1 and SP-2), are work RAM and no LCD register.
StackInWorkRam(s, n) ==
    /\ s \in \hc000..\hffff
    /\ \A a \in (s - 2 * n)..(s - 1) : a \in \hc000..\hffff /\ a \notin LcdRegisters

\* The cells the code's n PUSHes write, s+1 down to s-2n+2, are work RAM
\* and no LCD register.
StackCellsInWorkRam(s, n) ==
    /\ s \in \hc000..\hffff
    /\ \A a \in (s - 2 * n + 2)..(s + 1) : a \in \hc000..\hffff /\ a \notin LcdRegisters

\* The last 2n steps were n PUSHes and then n POPs, one after the other.
PushesThenPops(n) ==
    /\ raised = NoError
    /\ Len(history) >= 2 * n
    /\ \A i \in 0..(n - 1) : Ago(i).value \in PopOpcodes
    /\ \A i \in n..(2 * n - 1) : Ago(i).value \in PushOpcodes
    /\ \A i \in 0..(2 * n - 2) : Ago(i).address = Ago(i + 1).address + 1

\* The pair a POP loaded: as the next step saw it, or as it is now.
Popped(i) ==
    IF i = 0 THEN Now16(PairOf(Ago(0).value))
    ELSE get16be(Ago(i - 1).cpu.registers, PairOf(Ago(i).value))

\* n PUSHes and then n POPs return the pushed values last in, first out,
\* and restore SP.
RoundTrip(n, InScope(_, _)) ==
    (/\ PushesThenPops(n)
     /\ InScope(get16be(Ago(2 * n - 1).cpu.registers, SP), n)) =>
        /\ Now16(SP) = get16be(Ago(2 * n - 1).cpu.registers, SP)
        /\ \A i \in 0..(n - 1) :
              Popped(n - 1 - i) =
                  get16be(Ago(n + i).cpu.registers, PairOf(Ago(n + i).value))

\* C7: with SP and the stack bytes in work RAM outside the LCD registers,
\* n PUSHes followed by n POPs (n = 1, 2) return the pushed values in
\* last-in-first-out order and leave SP as it was before the first PUSH.
C7_PushPopRoundTrip ==
    RoundTrip(1, StackInWorkRam) /\ RoundTrip(2, StackInWorkRam)

\* The same where the cells the code stores to (SP and SP+1 at each PUSH)
\* are work RAM.
C7_RoundTripWhereStored ==
    RoundTrip(1, StackCellsInWorkRam) /\ RoundTrip(2, StackCellsInWorkRam)

\* Two PUSHes and two POPs have run from SP = 0xdff0 and swapped BC and DE.
C7_Witness ==
    /\ PushesThenPops(2) /\ get16be(Ago(3).cpu.registers, SP) = \hdff0
    /\ Ago(3).value = \hc5 /\ Ago(2).value = \hd5
    /\ Ago(1).value = \hc1 /\ Ago(0).value = \hd1
    /\ Now16(BC) = \h0001 /\ Now16(DE) = \habcd /\ Now16(SP) = \hdff0

\* CALL a16 at p and then the RET at a16 have run.
CallThenRet ==
    /\ raised = NoError /\ Len(history) >= 2
    /\ Ago(1).value = \hcd /\ Ago(0).value = \hc9

\* C8: CALL a16 at p (SP in work RAM) sets PC to a16, and the RET that
\* follows sets PC to p + 3 and SP to its value before the CALL.
C8_CallRet ==
    (CallThenRet /\ get16be(Ago(1).cpu.registers, SP) \in \hc000..\hffff) =>
        /\ Ago(0).address = u8_to_u16(Peek(Machine, Ago(1).address + 2),
                                      Peek(Machine, Ago(1).address + 1))
        /\ Now16(PC) = Ago(1).address + 3
        /\ Now16(SP) = get16be(Ago(1).cpu.registers, SP)

\* The same where the cells the code stores the return address to (SP and
\* SP+1) are work RAM.
C8_CallRetWhereStored ==
    (CallThenRet /\ StackCellsInWorkRam(get16be(Ago(1).cpu.registers, SP), 1)) =>
        /\ Ago(0).address = \h0200
        /\ Now16(PC) = Ago(1).address + 3
        /\ Now16(SP) = get16be(Ago(1).cpu.registers, SP)

C8_Witness ==
    /\ CallThenRet /\ get16be(Ago(1).cpu.registers, SP) = \hfffe
    /\ Now16(PC) = \h0153 /\ Now16(SP) = \hfffe

CpOpcodes == {\hb8, \hb9, \hba, \hbb, \hbc, \hbd, \hbe, \hbf, \hfe}

\* The operand of the CP just executed.
CpOperand ==
    CASE last.value = \hb8 -> last.cpu.registers[B]
      [] last.value = \hb9 -> last.cpu.registers[C]
      [] last.value = \hba -> last.cpu.registers[D]
      [] last.value = \hbb -> last.cpu.registers[E]
      [] last.value = \hbc -> last.cpu.registers[H]
      [] last.value = \hbd -> last.cpu.registers[L]
      [] last.value = \hbe -> Peek(Machine, Before16(HL))
      [] last.value = \hbf -> last.cpu.registers[A]
      [] last.value = \hfe -> Peek(Machine, last.address + 1)

\* CP x leaves A and sets Z = (A == x), N = 1 and C = (A < x).
C10_CompareZNC ==
    Stepped(CpOpcodes) =>
        /\ Reg8(Machine, A) = last.cpu.registers[A]
        /\ Z_flag(Machine) = Bool(last.cpu.registers[A] = CpOperand)
        /\ N_flag(Machine) = 1
        /\ C_flag(Machine) = Bool(last.cpu.registers[A] < CpOperand)

\* CP x sets H = ((A & 0xf) < (x & 0xf)).
C10_CompareH ==
    Stepped(CpOpcodes) =>
        H_flag(Machine) = Bool(last.cpu.registers[A] % 16 < CpOperand % 16)

\* C10: CP x leaves A unchanged and sets Z = (A == x), N = 1,
\* H = ((A & 0xf) < (x & 0xf)) and C = (A < x), whatever the flags were.
C10_Compare ==
    C10_CompareZNC /\ C10_CompareH

\* CP 0x90 has run with A = 0x90 and all flags set before.
C10_Witness ==
    /\ Stepped({\hfe}) /\ last.cpu.registers[A] = \h90 /\ CpOperand = \h90
    /\ last.cpu.registers[F] = \hf0

(***************************************************************************)
(* Properties of the boot ROM's first loop, checked under SpecLoop.        *)
(***************************************************************************)
VramAllZero == \A a \in \h8000..\h9fff : Peek(Machine, a) = \h00

\* The step just taken was the JR NZ of the loop.
AfterLoopJump == last.op = "step" /\ last.address = LoopJump /\ raised = NoError

\* The JR is taken exactly when H >= 0x80; when it is not taken, H = 0x7f,
\* HL = 0x7fff, Z = 1 and the video RAM is all zero.
LoopJumpDecides ==
    AfterLoopJump =>
        /\ Reg8(Machine, H) >= \h80 => Now16(PC) = LoopStart
        /\ Reg8(Machine, H) < \h80 =>
              /\ Now16(PC) = LoopExit
              /\ Now16(HL) = \h7fff
              /\ Z_flag(Machine) = 1
              /\ VramAllZero

\* C9: from HL = 0x9fff, A = 0 and the bytes 32 cb 7c 20 fb at PC the run
\* reaches the instruction after the JR; the JR is taken whenever
\* H >= 0x80 and first not taken when H = 0x7f (HL = 0x7fff) with Z = 1,
\* and then every byte of 0x8000..0x9fff is zero.
C9_LoopTerminates ==
    /\ [](Now16(PC) = LoopStart /\ last.address = \h0004 =>
            Now16(HL) = \h9fff /\ Reg8(Machine, A) = \h00)
    /\ []LoopJumpDecides
    /\ <>(Now16(PC) = LoopExit /\ AfterLoopJump /\ raised = NoError)

\* The loop was left with the video RAM cleared.
C9_Witness ==
    /\ Now16(PC) = LoopExit /\ AfterLoopJump /\ Now16(HL) = \h7fff
    /\ VramAllZero /\ steps = 3 + 3 * \h2000

(***************************************************************************)
(* C11: the 8-bit INC and DEC.                                             *)
(***************************************************************************)
IncOpcodes == {\h04, \h0c, \h14, \h1c, \h24, \h2c, \h34, \h3c}

DecOpcodes == {\h05, \h0d, \h15, \h1d, \h25, \h2d, \h35, \h3d}

\* The register an INC or DEC opcode names; None for (HL).
IncDecRegister(opcode) ==
    CASE opcode \in {\h04, \h05} -> B
      [] opcode \in {\h0c, \h0d} -> C
      [] opcode \in {\h14, \h15} -> D
      [] opcode \in {\h1c, \h1d} -> E
      [] opcode \in {\h24, \h25} -> H
      [] opcode \in {\h2c, \h2d} -> L
      [] opcode \in {\h3c, \h3d} -> A
      [] OTHER -> None

\* Video RAM and the work RAM: cells that hold what is written to them.
PlainRam == (\h8000..\h9fff) \cup (\hc000..\hdfff)

\* The opcode byte at PC.
OpcodeAtPC == Peek(Machine, Reg16(Machine, PC))

\* The transition is a CPU step that executed one of `ops` to its end.
Executes(ops) ==
    /\ last'.op = "step" /\ steps' = steps + 1 /\ raised' = NoError
    /\ OpcodeAtPC \in ops

\* The operand of the INC or DEC at PC, and the operand after the step; an
\* (HL) operand is taken in plain RAM.
IncDecOperand ==
    IF IncDecRegister(OpcodeAtPC) = None THEN Peek(Machine, Reg16(Machine, HL))
    ELSE Reg8(Machine, IncDecRegister(OpcodeAtPC))

IncDecResult ==
    IF IncDecRegister(OpcodeAtPC) = None THEN Peek(Machine', Reg16(Machine, HL))
    ELSE Reg8(Machine', IncDecRegister(OpcodeAtPC))

IncDecStep(ops) ==
    /\ Executes(ops)
    /\ IncDecRegister(OpcodeAtPC) = None => Reg16(Machine, HL) \in PlainRam

\* INC as specified: the result, Z, N = 0, H and C.
IncAsSpecified ==
    IncDecStep(IncOpcodes) =>
        /\ IncDecResult = (IncDecOperand + 1) % \h100
        /\ Z_flag(Machine') = Bool(IncDecResult = 0)
        /\ N_flag(Machine') = 0
        /\ H_flag(Machine') = Bool(BitAnd(IncDecOperand, \h0f) = \h0f)
        /\ C_flag(Machine') = C_flag(Machine)

\* DEC as specified but for H: the result, Z, N = 1 and C.
DecResultZNC ==
    IncDecStep(DecOpcodes) =>
        /\ IncDecResult = (IncDecOperand - 1) % \h100
        /\ Z_flag(Machine') = Bool(IncDecResult = 0)
        /\ N_flag(Machine') = 1
        /\ C_flag(Machine') = C_flag(Machine)

\* The H of DEC as specified, and as the code computes it.
DecHAsSpecified ==
    IncDecStep(DecOpcodes) =>
        H_flag(Machine') = Bool(BitAnd(IncDecOperand, \h0f) = \h00)

DecHAsCoded ==
    IncDecStep(DecOpcodes) => H_flag(Machine') = Bool(IncDecOperand % 15 = 0)

\* C11: INC r / DEC r on B, C, D, E, H, L, A and (HL) store (v + 1) and
\* (v - 1) mod 0x100; INC sets Z = (result = 0), N = 0 and
\* H = ((v & 0xf) = 0xf); DEC sets Z = (result = 0), N = 1 and
\* H = ((v & 0xf) = 0); C is unchanged.
C11_IncDec == [][IncAsSpecified /\ DecResultZNC /\ DecHAsSpecified]_vars

\* What the code does: all of C11 but the H of DEC, which is (v % 15 = 0).
C11_IncDecAsCoded == [][IncAsSpecified /\ DecResultZNC /\ DecHAsCoded]_vars

\* DEC C ran with C = 0x0f and set H.
C11_Witness ==
    /\ Stepped({\h0d}) /\ last.cpu.registers[C] = \h0f
    /\ Reg8(Machine, C) = \h0e /\ H_flag(Machine) = 1

(***************************************************************************)
(* C12: OR and XOR.                                                        *)
(***************************************************************************)
XorOpcodes == (\ha8..\haf) \cup {\hee}

OrOpcodes == (\hb0..\hb7) \cup {\hf6}

\* The operand x of the OR or XOR at PC: the byte after the opcode for the
\* d8 forms, else the register or (HL) the low three bits of the opcode name.
LogicOperand ==
    CASE OpcodeAtPC \in {\hee, \hf6} -> Peek(Machine, Reg16(Machine, PC) + 1)
      [] OpcodeAtPC % 8 = 0 -> Reg8(Machine, B)
      [] OpcodeAtPC % 8 = 1 -> Reg8(Machine, C)
      [] OpcodeAtPC % 8 = 2 -> Reg8(Machine, D)
      [] OpcodeAtPC % 8 = 3 -> Reg8(Machine, E)
      [] OpcodeAtPC % 8 = 4 -> Reg8(Machine, H)
      [] OpcodeAtPC % 8 = 5 -> Reg8(Machine, L)
      [] OpcodeAtPC % 8 = 6 -> Peek(Machine, Reg16(Machine, HL))
      [] OTHER -> Reg8(Machine, A)

\* A after an OR or XOR of `ops` is A op x.
LogicResult(ops) ==
    Executes(ops \cap XorOpcodes) =>
        Reg8(Machine', A) = NatXor(Reg8(Machine, A), LogicOperand)

LogicResultOr(ops) ==
    Executes(ops \cap OrOpcodes) =>
        Reg8(Machine', A) = NatOr(Reg8(Machine, A), LogicOperand)

\* Z = (result = 0) and N = H = C = 0 after an OR or XOR of `ops`.
LogicFlags(ops) ==
    Executes(ops) =>
        /\ Z_flag(Machine') = Bool(Reg8(Machine', A) = 0)
        /\ N_flag(Machine') = 0
        /\ H_flag(Machine') = 0
        /\ C_flag(Machine') = 0

\* C12: OR x and XOR x (0xa8..0xb7, 0xee, 0xf6) leave the bitwise result in
\* A, set Z = (result = 0) and clear N, H and C; XOR A leaves A = 0 and
\* F = 0x80.
C12_OrXor ==
    [][/\ LogicResult(XorOpcodes) /\ LogicResultOr(OrOpcodes)
       /\ LogicFlags(XorOpcodes \cup OrOpcodes)
       /\ Executes({\haf}) => Reg8(Machine', A) = 0 /\ Reg8(Machine', F) = \h80]_vars

\* What the code does: the results of all eighteen opcodes are as
\* specified and so are the flags of all but OR d8 (0xf6), which leaves F
\* as it was.
C12_OrXorAsCoded ==
    [][/\ LogicResult(XorOpcodes) /\ LogicResultOr(OrOpcodes)
       /\ LogicFlags((XorOpcodes \cup OrOpcodes) \ {\hf6})
       /\ Executes({\haf}) => Reg8(Machine', A) = 0 /\ Reg8(Machine', F) \div 16 = 8
       /\ Executes({\hf6}) => Reg8(Machine', F) = Reg8(Machine, F)]_vars

\* OR 0x90 ran with A = 0x90 and F = 0xf0, and F is still 0xf0.
C12_Witness ==
    /\ Stepped({\hf6}) /\ last.cpu.registers[A] = \h90
    /\ Peek(Machine, last.address + 1) = \h90
    /\ Reg8(Machine, A) = \h90 /\ Reg8(Machine, F) = \hf0

(***************************************************************************)
(* C13: LD r, r'.                                                          *)
(***************************************************************************)
\* The register the three bits n of an opcode encode; None for (HL).
EncodedRegister(n) ==
    CASE n = 0 -> B [] n = 1 -> C [] n = 2 -> D [] n = 3 -> E
      [] n = 4 -> H [] n = 5 -> L [] n = 7 -> A [] OTHER -> None

\* The opcodes LD r, r' between two registers.
LdOpcodes ==
    {op \in \h40..\h7f : /\ EncodedRegister((op \div 8) % 8) # None
                         /\ EncodedRegister(op % 8) # None}

\* The registers kept by LD r, r' but for r: the 8-bit registers, F and SP.
KeptRegisters == {A, F, B, C, D, E, H, L, SP, SP + 1}

\* LD r, r' of `ops` sets r to the prior r' and keeps the other registers,
\* F, SP, IME and memory.
LoadsRegister(ops) ==
    Executes(ops) =>
        /\ Reg8(Machine', EncodedRegister((OpcodeAtPC \div 8) % 8))
               = Reg8(Machine, EncodedRegister(OpcodeAtPC % 8))
        /\ \A i \in KeptRegisters \ {EncodedRegister((OpcodeAtPC \div 8) % 8)} :
               Reg8(Machine', i) = Reg8(Machine, i)
        /\ cpu'.IME = cpu.IME
        /\ memory' = memory /\ display'.ram = display.ram /\ cartridge' = cartridge

\* C13: LD r, r' (0x40..0x7f, r and r' among A, B, C, D, E, H, L) sets r to
\* the prior value of the register r' the opcode encodes and keeps every
\* other 8-bit register, F, SP, IME and memory; with r = r' all registers
\* but PC are kept.
C13_LoadRegister == [][LoadsRegister(LdOpcodes)]_vars

\* What the code does: as C13 but for 0x48 and 0x4c, which change nothing
\* but PC, and 0x7a, which loads A from B.
C13_LoadRegisterAsCoded ==
    [][/\ LoadsRegister(LdOpcodes \ {\h48, \h4c, \h7a})
       /\ Executes({\h48, \h4c}) =>
              \A i \in KeptRegisters : Reg8(Machine', i) = Reg8(Machine, i)
       /\ Executes({\h7a}) =>
              /\ Reg8(Machine', A) = Reg8(Machine, B)
              /\ \A i \in KeptRegisters \ {A} : Reg8(Machine', i) = Reg8(Machine, i)]_vars

\* LD C, B ran with B = 0x90 and C = 0x13, and C is still 0x13.
C13_Witness ==
    /\ Stepped({\h48}) /\ last.cpu.registers[B] = \h90
    /\ last.cpu.registers[C] = \h13 /\ Reg8(Machine, C) = \h13

(***************************************************************************)
(* C14: the state after the boot.                                          *)
(***************************************************************************)
\* The --skip-boot block has just run.
AfterSkipBoot == last.op = "skip_boot" /\ raised = NoError

\* The post-boot state but for AF.
PostBootButAF ==
    /\ Now16(PC) = \h0100 /\ Now16(BC) = \h0013 /\ Now16(DE) = \h00d8
    /\ Now16(HL) = \h014f /\ Now16(SP) = \hfffe
    /\ Peek(Machine, \hff40) = \h91 /\ Peek(Machine, \hff47) = \hfc
    /\ ~memory.boot_rom_active

\* C14: after the skip-boot initialisation PC = 0x0100, AF = 0x01b0,
\* BC = 0x0013, DE = 0x00d8, HL = 0x014f, SP = 0xfffe, 0xff40 reads 0x91,
\* 0xff47 reads 0xfc and the boot ROM is switched off.
C14_PostBootState == AfterSkipBoot => PostBootButAF /\ Now16(AF) = \h01b0

\* What the code does: the same state with AF = 0x0001.
C14_PostBootStateAsCoded == AfterSkipBoot => PostBootButAF /\ Now16(AF) = \h0001

\* The boot was skipped and A = 0x00, F = 0x01.
C14_Witness ==
    AfterSkipBoot /\ Reg8(Machine, A) = \h00 /\ Reg8(Machine, F) = \h01

(***************************************************************************)
(* C15: the check of the state when the boot ROM is switched off.          *)
(***************************************************************************)
\* POST_BOOT_STATE["registers"], as the register array holds them.
POST_BOOT_STATE_registers ==
    RegisterFile(\h0100, \hfffe, \h01b0, \h0013, \h00d8, \h01fd)

\* The transition is a CPU step during which the boot ROM is switched off.
SwitchesBootOff ==
    /\ last'.op = "step" /\ steps' = steps + 1
    /\ memory.boot_rom_active /\ ~memory'.boot_rom_active

\* The transition is a CPU step that leaves boot_rom_active as it is and
\* executes an instruction that raises nothing itself: NOP, LD SP,d16,
\* LDH (a8),A or LD r,r'.
KeepsBoot ==
    /\ last'.op = "step" /\ steps' = steps + 1
    /\ memory'.boot_rom_active = memory.boot_rom_active
    /\ OpcodeAtPC \in {\h00, \h31, \he0} \cup LdOpcodes

\* After the step the registers and the listed cells are the snapshot's.
RegistersAsSnapshot == cpu'.registers = POST_BOOT_STATE_registers

MemoryAsSnapshot == check_boot(Machine')

\* The step of SwitchesBootOff fails with EmulatorError exactly when `same`
\* is false, and else succeeds.
CheckedAgainst(same) ==
    SwitchesBootOff => raised' = IF same THEN NoError ELSE EmulatorError

\* C15: the step that switches the boot ROM off fails with EmulatorError
\* whenever a register (A, F, B, C, D, E, H, L, SP, PC) or a listed memory
\* cell differs from the post-boot snapshot and succeeds when all match; a
\* step that leaves boot_rom_active as it is performs no such check.
C15_BootCheck ==
    [][/\ CheckedAgainst(RegistersAsSnapshot /\ MemoryAsSnapshot)
       /\ KeepsBoot => raised' = NoError]_vars

\* What the code does: only the memory cells decide.
C15_BootCheckAsCoded ==
    [][/\ CheckedAgainst(MemoryAsSnapshot)
       /\ KeepsBoot => raised' = NoError]_vars

\* The boot ROM was switched off with AF = 0x0001 and HL = 0x014f and the
\* step succeeded.
C15_Witness ==
    /\ Stepped({\he0}) /\ last.address = \h00fe /\ ~memory.boot_rom_active
    /\ Now16(AF) = \h0001 /\ Now16(HL) = \h014f /\ Now16(PC) = \h0100
    /\ check_boot(Machine)

\* The step failed for a memory cell; a step succeeded with registers and
\* memory as the snapshot; LDH (0x50),A ran with the boot ROM already off.
C15_WitnessFails ==
    /\ last.op = "step" /\ last.address = \h00fe /\ raised = EmulatorError
    /\ ~check_boot(Machine)

C15_WitnessMatches ==
    /\ Stepped({\he0}) /\ last.address = \h00fe
    /\ cpu.registers = POST_BOOT_STATE_registers /\ check_boot(Machine)

C15_WitnessNoCheck ==
    /\ Stepped({\he0}) /\ last.address = Entry /\ ~check_boot(Machine)
    /\ Peek(Machine, last.address + 1) = \h50

(***************************************************************************)
(* The display on its own: Display.step, called from CPU.step, and writes  *)
(* of LCDC in between.                                                     *)
(***************************************************************************)
MaxTicks == 3

\* A machine whose display is at scanline ly with `lcdc` in LCDC, with
\* nothing drawn since the last frame.
AtScanline(video_ram, lcdc, ly) ==
    [Gameboy(Cartridge(RomImage(2, \h00, <<>>)), CpuBootImage, video_ram, RamBank,
             RandomMemory(\h4000, \h00, <<>>, "Internal work RAM"))
        EXCEPT !.display.LCDCONT = lcdc, !.display.LY = ly]

\* A video RAM with tiles in it: the first row of the tiles 0x00, 0x01,
\* 0x80 and 0xff of both tile data areas, and the tile numbers 0x01, 0x80
\* and 0xff at the start of both tile tables.
TileRam ==
    RandomMemory(\h2000, \h00,
                 (\h0000 :> \h35) @@ (\h0001 :> \h0f)
                 @@ (\h0010 :> \hff) @@ (\h0011 :> \h00)
                 @@ (\h0800 :> \haa) @@ (\h0801 :> \h55)
                 @@ (\h0810 :> \h3c) @@ (\h0811 :> \hc3)
                 @@ (\h0ff0 :> \h81) @@ (\h0ff1 :> \hff)
                 @@ (\h1000 :> \h01) @@ (\h1001 :> \h80)
                 @@ (\h17f0 :> \h7e) @@ (\h17f1 :> \h18)
                 @@ (\h1800 :> \h01) @@ (\h1801 :> \h80) @@ (\h1802 :> \hff)
                 @@ (\h1c00 :> \h01) @@ (\h1c01 :> \h80) @@ (\h1c02 :> \hff),
                 "Display RAM")

\* LCDC: screen and background on, with each choice of tile table and tile
\* data area; screen on with the background off; screen off.  LY: the
\* first line, both sides of the tile window's last line, the last of the
\* 154 lines of a frame, the last two lines before LY wraps.
InitDisplay ==
    /\ \E video_ram \in VideoRams \cup {TileRam},
          lcdc \in {\h91, \h89, \h81, \h99, \h80, \h11},
          ly \in {0, 127, 128, 153, 254, 255} :
          LET gb == AtScanline(video_ram, lcdc, ly)
          IN /\ cpu = gb.cpu
             /\ memory = gb.memory
             /\ display = gb.display
             /\ cartridge = gb.cartridge
             /\ raised = gb.raised
    /\ last = [op |-> "running", address |-> None, value |-> None, cpu |-> cpu,
               request |-> None]
    /\ history = <<>>
    /\ steps = 0

\* self.memory.display.step()
Tick ==
    /\ Continuable
    /\ steps < MaxTicks
    /\ Becomes(DisplayStep(Machine))
    /\ last' = Observed("tick", None, None, last.request)
    /\ history' = history
    /\ steps' = steps + 1

\* memory[0xff40] = value: the program switches the screen on or off.
WriteLcdc(value) ==
    /\ Continuable
    /\ steps < MaxTicks
    /\ Becomes(Setitem(Machine, \hff40, value))
    /\ last' = Observed("write", \hff40, value, last.request)
    /\ history' = history
    /\ steps' = steps + 1

NextDisplay ==
    \/ Tick
    \/ \E value \in {\h00, \h91} : WriteLcdc(value)

SpecDisplay == InitDisplay /\ [][NextDisplay]_vars

(***************************************************************************)
(* C16: LY over the display's ticks.                                       *)
(***************************************************************************)
\* The transition is a display.step().
Ticks == last'.op = "tick" /\ steps' = steps + 1

\* C16: a display.step() with LCDC bit 7 set changes LY to (LY + 1) mod 256,
\* so LY strictly increases until it wraps to 0; with LCDC bit 7 clear it
\* leaves LY and the pixel buffers as they are.
C16_LyAdvances ==
    [][Ticks =>
          /\ raised' = NoError
          /\ display.LCDCONT \div 128 = 1 =>
                /\ display'.LY = (display.LY + 1) % 256
                /\ display'.LY \in 0..255
                /\ display'.LY > display.LY \/ display'.LY = 0
          /\ display.LCDCONT \div 128 = 0 =>
                /\ display'.LY = display.LY
                /\ display'.pixels = display.pixels
                /\ display'.tile_pixels = display.tile_pixels]_vars

\* LY wrapped from 255 to 0 with the screen on, and the frame was flushed.
C16_Witness ==
    /\ last.op = "tick" /\ steps = 2 /\ display.LY = 0
    /\ display.LCDCONT = \h91 /\ display.pixels = NoPixels /\ raised = NoError

\* A tick with the screen off kept the line and the pixels drawn before.
C16_WitnessOff ==
    /\ last.op = "tick" /\ steps = 3 /\ display.LY = 1
    /\ display.LCDCONT = \h00 /\ display.pixels # NoPixels /\ raised = NoError

(***************************************************************************)
(* C17: 16-bit bus accesses.                                               *)
(***************************************************************************)
\* RAM that holds what is written to it: video RAM, the RAM bank and the
\* work RAM, but for the LCD registers.
WritableRam == (\h8000..\hffff) \ LcdRegisters

\* LD (a16),SP was the last step: memory.set16(a16, SP).
AfterSet16 == last.op = "step" /\ last.value = \h08

\* Its address (the two bytes after the opcode) and the value written.
Set16Address ==
    Peek(Machine, last.address + 1) + 256 * Peek(Machine, last.address + 2)

Set16Value == Before16(SP)

\* The bytes in the register file.
RegisterBytes == {cpu.registers[i] : i \in DOMAIN cpu.registers}

\* C17: for a and a + 1 in writable RAM outside the LCD registers,
\* write16(a, v) leaves v & 0xff at a and v >> 8 at a + 1 and read16(a)
\* then returns v; pack(hi, lo) = (hi << 8) | lo and
\* unpack(pack(h, l)) = (h, l) for bytes h, l.
C17_Word ==
    (AfterSet16 /\ Set16Address \in WritableRam /\ Set16Address + 1 \in WritableRam) =>
        /\ raised = NoError
        /\ Peek(Machine, Set16Address) = Set16Value % 256
        /\ Peek(Machine, Set16Address + 1) = Set16Value \div 256
        /\ get16(Machine, Set16Address) = <<NoError, Set16Value>>
        /\ u16_to_u8(Set16Value) = <<Set16Value \div 256, Set16Value % 256>>
        /\ \A h \in RegisterBytes, l \in RegisterBytes :
              /\ u8_to_u16(h, l) = 256 * h + l
              /\ u16_to_u8(u8_to_u16(h, l)) = <<h, l>>

\* SP = 0xdff0 was written across the end of the video RAM: 0xf0 at 0x9fff
\* and 0xdf at 0xa000.
C17_Witness ==
    /\ AfterSet16 /\ raised = NoError /\ Set16Address = \h9fff
    /\ Set16Value = \hdff0
    /\ Peek(Machine, \h9fff) = \hf0 /\ Peek(Machine, \ha000) = \hdf

(***************************************************************************)
(* C18: illegal and unknown opcodes.                                       *)
(***************************************************************************)
IllegalOpcodes ==
    {\hd3, \hdb, \hdd, \he3, \he4, \heb, \hec, \hed, \hf4, \hfc, \hfd}

\* The transition is a CPU step on one of `ops`, however it ends.
StepsOn(ops) ==
    /\ last'.op = "step" /\ steps' = steps + 1
    /\ OpcodeAtPC \in ops

\* ... on the prefix 0xcb followed by a byte without an entry in the table
\* of extended opcodes.
StepsOnUnknownCB ==
    /\ StepsOn({\hcb})
    /\ Peek(Machine, Reg16(Machine, PC) + 1) \notin DOMAIN extended_opcodes

\* C18: a step on an illegal primary opcode, or on 0xcb followed by a byte
\* with no entry in the CB table, ends in an error of the OpcodeError
\* family: it neither completes nor fails with another kind of error.
C18_DecodeError ==
    [][(StepsOn(IllegalOpcodes) \/ StepsOnUnknownCB) =>
           raised' \in {OpcodeError, InvalidOpcodeError}]_vars

\* What the code does: InvalidOpcodeError for the illegal primary opcodes,
\* KeyError for the unknown extended ones.
C18_DecodeErrorAsCoded ==
    [][/\ StepsOn(IllegalOpcodes) => raised' = InvalidOpcodeError
       /\ StepsOnUnknownCB => raised' = KeyError]_vars

\* The step on cb 00 ended with a KeyError.
C18_Witness ==
    /\ last.op = "step" /\ last.value = \hcb /\ raised = KeyError
    /\ Peek(Machine, last.address + 1) = \h00

(***************************************************************************)
(* C19: HALT and STOP.                                                     *)
(***************************************************************************)
\* The transition is a CPU step on STOP: 0x10 followed by 0x00.
StepsOnStop ==
    StepsOn({\h10}) /\ Peek(Machine, Reg16(Machine, PC) + 1) = \h00

\* How a step on an unknown or illegal opcode ends, and how the step ends
\* that finds the state after the boot wrong.
UnknownOrIllegal == {unknown_opcode, OpcodeError, InvalidOpcodeError, KeyError}

BootStateNotOk == EmulatorError

\* C19: a step on HALT (0x76) and a step on STOP (0x10 0x00) each end in
\* the not-implemented error, which is neither the outcome of an unknown
\* or illegal opcode nor that of the failed check after the boot.
C19_NotImplemented ==
    [][(StepsOn({\h76}) \/ StepsOnStop) =>
           /\ raised' = not_implemented
           /\ raised' \notin UnknownOrIllegal \cup {BootStateNotOk}]_vars

\* What the code does: HALT ends in the not-implemented error; STOP ends in
\* it only when the byte two after the 0x10 is 0x10 too, and else as an
\* unknown instruction does.
C19_NotImplementedAsCoded ==
    [][/\ StepsOn({\h76}) => raised' = not_implemented
       /\ StepsOnStop =>
              raised' = IF Peek(Machine, Reg16(Machine, PC) + 2) = \h10
                        THEN not_implemented ELSE unknown_opcode]_vars

\* The step on 10 00 02 ended as an unknown instruction.
C19_Witness ==
    /\ last.op = "step" /\ last.value = \h10 /\ raised = unknown_opcode
    /\ Peek(Machine, last.address + 1) = \h00
    /\ Peek(Machine, last.address + 2) = \h02

\* The step on 10 00 10 and the step on HALT ended as not implemented.
C19_WitnessStop ==
    /\ last.op = "step" /\ last.value = \h10 /\ raised = not_implemented
    /\ Peek(Machine, last.address + 2) = \h10

C19_WitnessHalt ==
    last.op = "step" /\ last.value = \h76 /\ raised = not_implemented

(***************************************************************************)
(* C20: the interrupt master enable flag.                                  *)
(***************************************************************************)
\* DI, EI and RETI.
ImeOpcodes == {\hf3, \hfb, \hd9}

\* A CPU step changes IME only on DI, EI and RETI, which leave it false,
\* true and true.
StepKeepsIME ==
    /\ StepsOn(0..255) /\ cpu'.IME # cpu.IME => OpcodeAtPC \in ImeOpcodes
    /\ Executes({\hf3}) => cpu'.IME = FALSE
    /\ Executes({\hfb, \hd9}) => cpu'.IME = TRUE

\* A bus write, the skip-boot block and a display tick keep IME.
OthersKeepIME ==
    last'.op \in {"write", "skip_boot", "tick"} => cpu'.IME = cpu.IME

\* C20: IME is false at construction; a CPU step changes IME only when it
\* executes DI (IME becomes false), EI (true) or RETI (true); no other
\* instruction, no bus write and no display tick changes IME.
C20_IME ==
    /\ steps = 0 => cpu.IME = FALSE
    /\ [][StepKeepsIME /\ OthersKeepIME]_vars

\* EI, NOP and DI have run: IME was true before the DI and is false now,
\* and the display has ticked in between.
C20_Witness ==
    /\ Len(history) = 3 /\ raised = NoError
    /\ Ago(2).value = \hfb /\ Ago(1).value = \h00 /\ Ago(0).value = \hf3
    /\ Ago(0).cpu.IME = TRUE /\ cpu.IME = FALSE /\ display.LY = 1

\* RETI has run after the DI and IME is true again.
C20_WitnessReti ==
    /\ Len(history) = 4 /\ raised = NoError
    /\ Ago(1).value = \hf3 /\ Ago(0).value = \hd9
    /\ Ago(0).cpu.IME = FALSE /\ cpu.IME = TRUE

(***************************************************************************)
(* Accesses to a Memory object itself (memory[index], as the display and   *)
(* the bus make them), at indexes inside and outside the region.           *)
(***************************************************************************)
MaxAccesses == 2

\* The attributes whose regions are accessed: the boot ROM (read-only, 256
\* bytes), the video RAM and the internal work RAM.
MemoryRegions == {"boot_rom", "display.ram", "internal_work_ram"}

\* The indexes of an access to a region of length n: both ends of 0..n-1,
\* both ends of -n..-1, and the first index outside on either side.
MemoryIndexes(n) == {0 - n - 1, 0 - n, 0 - 1, 0, n - 1, n}

\* The values written: bytes, and values a byte cannot hold.
MemoryValues == {\h00, \h5a, \hff, \h100, \h1ff, 0 - 1}

InitMemory ==
    /\ \E work_ram \in WorkRams :
          LET gb == Gameboy(Cartridge(RomImage(2, \h00, <<>>)), BusBootImage,
                            VideoRam, RamBank, work_ram)
          IN /\ cpu = gb.cpu
             /\ memory = gb.memory
             /\ display = gb.display
             /\ cartridge = gb.cartridge
             /\ raised = gb.raised
    /\ last = [op |-> "init", address |-> None, value |-> None, cpu |-> cpu,
               request |-> None]
    /\ history = <<>>
    /\ steps = 0

\* memory[index] on the region of an attribute: Memory.__getitem__.  The
\* value read is recorded, and history takes the attribute.
MemoryGet(attr, index) ==
    /\ Continuable
    /\ steps < MaxAccesses
    /\ raised' = MemoryGetitem(Region(Machine, attr), index)[1]
    /\ UNCHANGED <<cpu, memory, display, cartridge>>
    /\ last' = Observed("getitem", index,
                        MemoryGetitem(Region(Machine, attr), index)[2], last.request)
    /\ history' = <<attr>>
    /\ steps' = steps + 1

\* memory[index] = value on the region of an attribute: Memory.__setitem__.
MemorySet(attr, index, value) ==
    /\ Continuable
    /\ steps < MaxAccesses
    /\ Becomes(RegionSetitem(Machine, attr, index, value))
    /\ last' = Observed("setitem", index, value, last.request)
    /\ history' = <<attr>>
    /\ steps' = steps + 1

NextMemory ==
    \/ \E attr \in MemoryRegions :
          \E index \in MemoryIndexes(MemoryLen(Region(Machine, attr))) :
             MemoryGet(attr, index)
    \/ \E attr \in MemoryRegions :
          \E index \in MemoryIndexes(MemoryLen(Region(Machine, attr))) :
             \E value \in MemoryValues : MemorySet(attr, index, value)

SpecMemory == InitMemory /\ [][NextMemory]_vars

(***************************************************************************)
(* C21: the contract of a Memory region.                                   *)
(***************************************************************************)
\* The region the last access went to, before and after it.
Accessed == Region(Machine, history'[1])

AccessedAfter == Region(Machine', history'[1])

\* An access of the given kind has just been made.
Accesses(op) == last'.op = op /\ steps' = steps + 1

\* The bytes of a region at the indexes the accesses use and next to them.
SampleCells(m) ==
    {0, 1, m.length - 2, m.length - 1} \cup DOMAIN m.data

\* Every byte of a region is in 0..255.
BytesInRange(m) ==
    /\ m.fill \in 0..255
    /\ \A i \in DOMAIN m.data : m.data[i] \in 0..255

\* An access that fails with `exception` and changes nothing.
FailsWith(exception) ==
    /\ raised' = exception
    /\ UNCHANGED <<cpu, memory, display, cartridge>>

\* A read inside the region returns the byte there and changes nothing.
ReadInside ==
    Accesses("getitem") /\ last'.address \in 0..(Accessed.length - 1) =>
        /\ raised' = NoError
        /\ last'.value = ArrayGet(Accessed, last'.address)
        /\ UNCHANGED <<cpu, memory, display, cartridge>>

\* A write to a read-only region fails with MemoryError, whatever the index.
WriteReadonly ==
    Accesses("setitem") /\ Accessed.readonly => FailsWith(MemoryError)

\* A write inside a writable region stores value mod 0x100 at the index,
\* keeps every other byte and the length, and every byte stays in 0..255.
WriteInside ==
    Accesses("setitem") /\ ~Accessed.readonly
        /\ last'.address \in 0..(Accessed.length - 1) =>
        /\ raised' = NoError
        /\ AccessedAfter.length = Accessed.length
        /\ ArrayGet(AccessedAfter, last'.address) = last'.value % \h100
        /\ \A i \in (SampleCells(Accessed) \cup SampleCells(AccessedAfter))
                       \ {last'.address} :
              ArrayGet(AccessedAfter, i) = ArrayGet(Accessed, i)
        /\ BytesInRange(AccessedAfter)
        /\ \A attr \in MemoryRegions \ {history'[1]} :
              Region(Machine', attr) = Region(Machine, attr)

\* An access outside 0..n-1 fails with MemoryError and changes nothing.
OutsideAsSpecified ==
    /\ Accesses("getitem") /\ last'.address \notin 0..(Accessed.length - 1) =>
          FailsWith(MemoryError)
    /\ Accesses("setitem") /\ ~Accessed.readonly
          /\ last'.address \notin 0..(Accessed.length - 1) =>
          FailsWith(MemoryError)

\* What the code does outside 0..n-1: an index of -n..-1 counts from the
\* end of the region, and is read and written like index + n; a read
\* further out fails with MemoryError, a write further out with IndexError.
OutsideAsCoded ==
    /\ Accesses("getitem") /\ last'.address \in (0 - Accessed.length)..(0 - 1) =>
          /\ raised' = NoError
          /\ last'.value = ArrayGet(Accessed, last'.address + Accessed.length)
          /\ UNCHANGED <<cpu, memory, display, cartridge>>
    /\ Accesses("getitem")
          /\ last'.address \notin (0 - Accessed.length)..(Accessed.length - 1) =>
          FailsWith(MemoryError)
    /\ Accesses("setitem") /\ ~Accessed.readonly
          /\ last'.address \in (0 - Accessed.length)..(0 - 1) =>
          /\ raised' = NoError
          /\ AccessedAfter.length = Accessed.length
          /\ ArrayGet(AccessedAfter, last'.address + Accessed.length)
                = last'.value % \h100
          /\ BytesInRange(AccessedAfter)
    /\ Accesses("setitem") /\ ~Accessed.readonly
          /\ last'.address \notin (0 - Accessed.length)..(Accessed.length - 1) =>
          FailsWith(IndexError)

\* C21: a write to a read-only region fails with MemoryError and changes no
\* byte; a read or a write at an index outside 0..n-1, negative ones
\* included, fails with MemoryError and changes nothing; a successful write
\* stores value mod 0x100, every byte stays in 0..255 and the length stays.
C21_MemoryContract ==
    [][ReadInside /\ WriteReadonly /\ WriteInside /\ OutsideAsSpecified]_vars

\* C21 as the code has it: the same, but for the indexes outside 0..n-1.
C21_MemoryContractAsCoded ==
    [][ReadInside /\ WriteReadonly /\ WriteInside /\ OutsideAsCoded]_vars

\* A value a byte cannot hold was written inside a writable region.
C21_Witness ==
    /\ last.op = "setitem" /\ raised = NoError /\ last.value = \h1ff
    /\ last.address = \h1fff /\ history = <<"display.ram">>
    /\ ArrayGet(display.ram, \h1fff) = \hff

\* A write to the boot ROM was refused.
C21_WitnessReadonly ==
    last.op = "setitem" /\ history = <<"boot_rom">> /\ raised = MemoryError

\* A write at index -1 went through.
C21_WitnessNegative ==
    /\ last.op = "setitem" /\ last.address = 0 - 1 /\ raised = NoError
    /\ history = <<"internal_work_ram">> /\ last.value = \h5a
    /\ ArrayGet(memory.internal_work_ram, \h3fff) = \h5a

\* A write one past the end of a region raised IndexError.
C21_WitnessIndexError ==
    last.op = "setitem" /\ last.address = \h2000 /\ raised = IndexError

(***************************************************************************)
(* C22: the LCD registers on the bus.                                      *)
(***************************************************************************)
\* The bus write just made went to `address`.
WroteTo(address) == last.op = "write" /\ last.address = address

\* A read of the address just written returns the value written.
ReadsBack(address) ==
    WroteTo(address) =>
        /\ raised = NoError
        /\ Getitem(Machine, address) = <<NoError, last.value>>

\* A write to LY makes the next read of LY return 0.
LyWriteResets ==
    WroteTo(\hff44) =>
        /\ raised = NoError
        /\ Getitem(Machine, \hff44) = <<NoError, 0>>

\* C22: a bus write of v in 0..0xff to LCDC (0xff40), SCY (0xff42), SCX
\* (0xff43) or BGP (0xff47) followed by a read of that address returns v; a
\* write of any value to LY (0xff44) makes the next read of it return 0.
C22_LcdRegisters ==
    /\ ReadsBack(\hff40) /\ ReadsBack(\hff42) /\ ReadsBack(\hff43)
    /\ ReadsBack(\hff47)
    /\ LyWriteResets

\* C22 as the code has it: LCDC reads back v mod 0xff (0 after a write of
\* 0xff); SCY, SCX and BGP read back v, and LY reads 0.
C22_LcdRegistersAsCoded ==
    /\ WroteTo(\hff40) =>
          /\ raised = NoError
          /\ Getitem(Machine, \hff40) = <<NoError, last.value % \hff>>
    /\ ReadsBack(\hff42) /\ ReadsBack(\hff43) /\ ReadsBack(\hff47)
    /\ LyWriteResets

\* BGP was written after SCY, and both read back what was written.
C22_Witness ==
    /\ WroteTo(\hff47) /\ last.value = \h91 /\ Peek(Machine, \hff47) = \h91
    /\ Peek(Machine, \hff42) = \hff /\ steps = 2

\* 0xff was written to LCDC, which then reads 0.
C22_WitnessLcdc ==
    WroteTo(\hff40) /\ last.value = \hff /\ Peek(Machine, \hff40) = \h00

(***************************************************************************)
(* C23: where PUSH and POP store and read.                                 *)
(***************************************************************************)
\* Work RAM that holds what is written to it.
StackRam == (\hc000..\hffff) \ LcdRegisters

\* SP and the pair of the PUSH or POP at PC, before the step.
StackTop == Reg16(Machine, SP)

StackPair == Reg16(Machine, PairOf(OpcodeAtPC))

\* The bytes at the addresses `cells` are as before the step.
KeepsBytes(cells) == \A a \in cells : Peek(Machine', a) = Peek(Machine, a)

\* PUSH as specified: high byte at s-1, low byte at s-2, then SP = s-2;
\* the bytes at s and s+1 stay.
PushAsSpecified ==
    Executes(PushOpcodes) /\ (StackTop - 2)..(StackTop + 1) \subseteq StackRam =>
        /\ Peek(Machine', StackTop - 1) = StackPair \div 256
        /\ Peek(Machine', StackTop - 2) = StackPair % 256
        /\ Reg16(Machine', SP) = StackTop - 2
        /\ KeepsBytes({StackTop, StackTop + 1})

\* PUSH as coded: set16(SP, nn) stores the low byte at s and the high byte
\* at s+1, then SP = s-2; the bytes at s-1 and s-2 stay.
PushAsCoded ==
    Executes(PushOpcodes) /\ (StackTop - 2)..(StackTop + 1) \subseteq StackRam =>
        /\ Peek(Machine', StackTop + 1) = StackPair \div 256
        /\ Peek(Machine', StackTop) = StackPair % 256
        /\ Reg16(Machine', SP) = StackTop - 2
        /\ KeepsBytes({StackTop - 1, StackTop - 2})

\* POP as specified: low byte from s, high byte from s+1, then SP = s+2.
PopAsSpecified ==
    Executes(PopOpcodes) /\ StackTop..(StackTop + 3) \subseteq StackRam =>
        /\ Reg16(Machine', PairOf(OpcodeAtPC)) =
              Peek(Machine, StackTop) + 256 * Peek(Machine, StackTop + 1)
        /\ Reg16(Machine', SP) = StackTop + 2
        /\ KeepsBytes(StackTop..(StackTop + 3))

\* POP as coded: SP = s+2 first, then low byte from s+2, high from s+3.
PopAsCoded ==
    Executes(PopOpcodes) /\ StackTop..(StackTop + 3) \subseteq StackRam =>
        /\ Reg16(Machine', PairOf(OpcodeAtPC)) =
              Peek(Machine, StackTop + 2) + 256 * Peek(Machine, StackTop + 3)
        /\ Reg16(Machine', SP) = StackTop + 2
        /\ KeepsBytes(StackTop..(StackTop + 3))

\* C23: PUSH rr with SP = s stores the high byte of rr at s-1 and the low
\* byte at s-2 and sets SP = s-2, leaving the bytes at s and s+1; POP rr
\* with SP = s reads the low byte from s and the high byte from s+1 and
\* sets SP = s+2.
C23_PushPopLayout == [][PushAsSpecified /\ PopAsSpecified]_vars

\* C23 as the code has it.
C23_PushPopLayoutAsCoded == [][PushAsCoded /\ PopAsCoded]_vars

\* PUSH BC has run with SP = 0xfffe and BC = 0x9013: 0x13 is at 0xfffe and
\* 0x90 at 0xffff.
C23_Witness ==
    /\ Stepped({\hc5}) /\ Before16(SP) = \hfffe /\ Before16(BC) = \h9013
    /\ Now16(SP) = \hfffc
    /\ Peek(Machine, \hfffe) = \h13 /\ Peek(Machine, \hffff) = \h90
    /\ Peek(Machine, \hfffd) = \h00 /\ Peek(Machine, \hfffc) = \h00

\* POP DE has run after PUSH BC and loaded what the PUSH stored.
C23_WitnessPop ==
    /\ Stepped({\hd1}) /\ Len(history) = 2 /\ Ago(1).value = \hc5
    /\ Before16(SP) = \hdfee /\ Now16(SP) = \hdff0 /\ Now16(DE) = \habcd

(***************************************************************************)
(* C24: RST n.                                                             *)
(***************************************************************************)
RstOpcodes == {\hc7, \hcf, \hd7, \hdf, \he7, \hef, \hf7, \hff}

\* The vector an RST opcode names: bits 5..3 of the opcode.
RstVector(opcode) == opcode - \hc7

\* The word on top of the stack after the step: what a POP would load.
TopOfStack == pop(Machine')[2]

\* An RST has run with the stack cells it stores to in work RAM.
RstStep ==
    Executes(RstOpcodes) /\ (StackTop - 2)..(StackTop + 1) \subseteq StackRam

\* The return address is pushed: the address after the one-byte RST.
RstPushes ==
    RstStep =>
        /\ TopOfStack = <<NoError, (Reg16(Machine, PC) + 1) % \h10000>>
        /\ Reg16(Machine', SP) = StackTop - 2

\* C24: RST n, for the eight vectors n, pushes the address of the
\* instruction that follows it and sets PC to n itself, whatever bytes
\* the memory holds at n and n+1.
C24_Rst ==
    [][/\ RstPushes
       /\ RstStep => Reg16(Machine', PC) = RstVector(OpcodeAtPC)]_vars

\* C24 as the code has it: PC becomes the word stored at n and n+1.
C24_RstAsCoded ==
    [][/\ RstPushes
       /\ RstStep =>
             Reg16(Machine', PC) =
                 Peek(Machine, RstVector(OpcodeAtPC))
                 + 256 * Peek(Machine, RstVector(OpcodeAtPC) + 1)]_vars

\* RST 00H has run at 0x0150 with the bytes 0x10 0x20 at 0x0000: PC is
\* 0x2010 and the return address 0x0151 is on the stack.
C24_Witness ==
    /\ Stepped({\hc7}) /\ last.address = Entry /\ Before16(SP) = \hfffe
    /\ Now16(PC) = \h2010 /\ Now16(SP) = \hfffc
    /\ pop(Machine)[2] = <<NoError, \h0151>>

(***************************************************************************)
(* C25: JP (HL).                                                           *)
(***************************************************************************)
\* The step changes no register but PC, no flag and no memory.
OnlyPCChanges ==
    /\ \A i \in (DOMAIN cpu.registers) \ {PC, PC + 1} :
          cpu'.registers[i] = cpu.registers[i]
    /\ cpu'.IME = cpu.IME
    /\ memory' = memory /\ cartridge' = cartridge /\ display'.ram = display.ram

\* C25: JP (HL) (0xe9) sets PC to the 16-bit value of HL, whatever byte the
\* memory holds at HL, and changes no flag, no other register, no memory.
C25_JpHL ==
    [][Executes({\he9}) =>
          /\ Reg16(Machine', PC) = Reg16(Machine, HL)
          /\ OnlyPCChanges]_vars

\* C25 as the code has it: PC becomes the byte the memory holds at HL.
C25_JpHLAsCoded ==
    [][Executes({\he9}) =>
          /\ Reg16(Machine', PC) = Peek(Machine, Reg16(Machine, HL))
          /\ OnlyPCChanges]_vars

\* JP (HL) has run with HL = 0xc000, where the work RAM holds 0: PC is 0.
C25_Witness ==
    /\ Stepped({\he9}) /\ Before16(HL) = \hc000 /\ Now16(HL) = \hc000
    /\ Now16(PC) = \h0000 /\ last.address = Entry

\* JP (HL) has run with HL = 0x014f, where the cartridge holds 0xff.
C25_WitnessRom ==
    Stepped({\he9}) /\ Before16(HL) = \h014f /\ Now16(PC) = \h00ff

(***************************************************************************)
(* C26: the relative jumps.                                                *)
(***************************************************************************)
JrOpcodes == {\h18, \h20, \h28, \h30, \h38}

\* The condition of the conditional branch, call or return at PC holds
\* (bits 4..3 of the opcode: NZ, Z, NC, C).
ConditionHolds ==
    CASE (OpcodeAtPC \div 8) % 4 = 0 -> Z_flag(Machine) = 0
      [] (OpcodeAtPC \div 8) % 4 = 1 -> Z_flag(Machine) = 1
      [] (OpcodeAtPC \div 8) % 4 = 2 -> C_flag(Machine) = 0
      [] (OpcodeAtPC \div 8) % 4 = 3 -> C_flag(Machine) = 1

\* The relative jump at PC is taken.
JrTaken == OpcodeAtPC = \h18 \/ ConditionHolds

\* The operand byte of the relative jump at PC, unsigned and signed.
JrOperand == Peek(Machine, Reg16(Machine, PC) + 1)

JrSigned == IF JrOperand >= \h80 THEN JrOperand - \h100 ELSE JrOperand

\* A relative jump not taken leaves PC after the instruction.
JrNotTaken ==
    Executes(JrOpcodes) /\ ~JrTaken =>
        Reg16(Machine', PC) = (Reg16(Machine, PC) + 2) % \h10000

\* C26: JR r8 and JR cc,r8 at p with operand byte b: taken, the new PC is
\* (p + 2 + s) mod 0x10000 with s the byte b read as signed (b >= 0x80
\* jumps backwards for all five opcodes); not taken, the new PC is p + 2.
C26_Jr ==
    [][/\ JrNotTaken
       /\ Executes(JrOpcodes) /\ JrTaken =>
             Reg16(Machine', PC) = (Reg16(Machine, PC) + 2 + JrSigned) % \h10000]_vars

\* C26 as the code has it: the operand of JR Z (0x28) is not sign-extended.
C26_JrAsCoded ==
    [][/\ JrNotTaken
       /\ Executes(JrOpcodes) /\ JrTaken =>
             Reg16(Machine', PC) =
                 (Reg16(Machine, PC) + 2
                  + IF OpcodeAtPC = \h28 THEN JrOperand ELSE JrSigned) % \h10000]_vars

\* JR NZ with the operand 0xfb has jumped back from 0x0150 to 0x014d.
C26_Witness ==
    /\ Stepped({\h20}) /\ last.address = Entry
    /\ Peek(Machine, Entry + 1) = \hfb /\ Now16(PC) = \h014d

\* JR Z with the operand 0xfb has jumped forward from 0x0150 to 0x024d.
C26_WitnessJrZ ==
    /\ Stepped({\h28}) /\ last.address = Entry
    /\ Peek(Machine, Entry + 1) = \hfb /\ Now16(PC) = \h024d

\* A conditional relative jump was not taken.
C26_WitnessNotTaken ==
    /\ Stepped({\h38}) /\ last.address = Entry /\ Now16(PC) = Entry + 2
    /\ Before16(AF) % 256 = \h00

(***************************************************************************)
(* C27: the conditional absolute jumps and calls.                          *)
(***************************************************************************)
JpCcOpcodes == {\hc2, \hca, \hd2, \hda}

CallCcOpcodes == {\hc4, \hcc, \hd4, \hdc}

\* The 16-bit immediate of the instruction at PC: the bytes at p+1, p+2.
Immediate16 ==
    Peek(Machine, Reg16(Machine, PC) + 1)
    + 256 * Peek(Machine, Reg16(Machine, PC) + 2)

\* The step leaves SP and the memory as they were.
KeepsStackAndMemory ==
    /\ Reg16(Machine', SP) = Reg16(Machine, SP)
    /\ memory' = memory /\ cartridge' = cartridge /\ display'.ram = display.ram

\* A conditional CALL runs with the stack cells it stores to in work RAM.
CallCcStep(ops) ==
    StepsOn(ops) /\ (StackTop - 2)..(StackTop + 1) \subseteq StackRam

\* A JP cc whose condition holds jumps to the immediate.
JpCcTaken(ops) ==
    StepsOn(ops) /\ ConditionHolds =>
        /\ raised' = NoError
        /\ Reg16(Machine', PC) = Immediate16

\* A CALL cc whose condition holds pushes p+3 and jumps to the immediate.
CallCcTaken(ops) ==
    CallCcStep(ops) /\ ConditionHolds =>
        /\ raised' = NoError
        /\ Reg16(Machine', PC) = Immediate16
        /\ TopOfStack = <<NoError, Reg16(Machine, PC) + 3>>
        /\ Reg16(Machine', SP) = StackTop - 2

\* A JP cc or CALL cc whose condition does not hold goes on at p+3.
CcNotTaken(ops) ==
    StepsOn(ops) /\ ~ConditionHolds =>
        /\ raised' = NoError
        /\ Reg16(Machine', PC) = Reg16(Machine, PC) + 3
        /\ KeepsStackAndMemory

\* C27: JP cc,a16 and CALL cc,a16 at p: if the condition holds, PC becomes
\* the little-endian immediate of the bytes at p+1 and p+2, and CALL also
\* pushes p+3; if not, PC becomes p+3 and SP and memory are unchanged.
C27_JpCallCc ==
    [][/\ JpCcTaken(JpCcOpcodes)
       /\ CallCcTaken(CallCcOpcodes)
       /\ CcNotTaken(JpCcOpcodes \cup CallCcOpcodes)]_vars

\* C27 as the code has it: JP NC (0xd2) is decoded as one byte without an
\* argument, so that it fails when taken and goes on at p+1 when not; a
\* taken CALL C (0xdc) pushes p+3 and jumps to the value of register C.
C27_JpCallCcAsCoded ==
    [][/\ JpCcTaken(JpCcOpcodes \ {\hd2})
       /\ CallCcTaken(CallCcOpcodes \ {\hdc})
       /\ CcNotTaken((JpCcOpcodes \cup CallCcOpcodes) \ {\hd2})
       /\ StepsOn({\hd2}) /\ ConditionHolds => raised' = TypeError
       /\ StepsOn({\hd2}) /\ ~ConditionHolds =>
             /\ raised' = NoError
             /\ Reg16(Machine', PC) = Reg16(Machine, PC) + 1
             /\ KeepsStackAndMemory
       /\ CallCcStep({\hdc}) /\ ConditionHolds =>
             /\ raised' = NoError
             /\ Reg16(Machine', PC) = Reg8(Machine, C)
             /\ TopOfStack = <<NoError, Reg16(Machine, PC) + 3>>
             /\ Reg16(Machine', SP) = StackTop - 2]_vars

\* CALL NZ,0x0200 has run at 0x0150: PC = 0x0200 and 0x0153 is pushed.
C27_Witness ==
    /\ Stepped({\hc4}) /\ last.address = Entry /\ Before16(SP) = \hdff0
    /\ Now16(PC) = \h0200 /\ Now16(SP) = \hdfee
    /\ pop(Machine)[2] = <<NoError, \h0153>>

\* JP Z was not taken.
C27_WitnessNotTaken ==
    /\ Stepped({\hca}) /\ last.address = Entry /\ Now16(PC) = Entry + 3
    /\ Before16(AF) % 256 = \h00

\* JP NC with the C flag set has gone on at p+1.
C27_WitnessJpNC ==
    /\ Stepped({\hd2}) /\ last.address = Entry /\ Now16(PC) = Entry + 1
    /\ (Before16(AF) \div 16) % 2 = 1

\* CALL C,0x0200 with C = 0x13 has jumped to 0x0013.
C27_WitnessCallC ==
    /\ Stepped({\hdc}) /\ last.address = Entry /\ Before16(BC) = \h9013
    /\ Peek(Machine, Entry + 2) = \h02 /\ Now16(PC) = \h0013

(***************************************************************************)
(* C28: the cycles of the conditional instructions.                        *)
(***************************************************************************)
JrCcOpcodes == {\h20, \h28, \h30, \h38}

RetCcOpcodes == {\hc0, \hc8, \hd0, \hd8}

ConditionalOpcodes ==
    JrCcOpcodes \cup JpCcOpcodes \cup CallCcOpcodes \cup RetCcOpcodes

\* The step adds n cycles: total_cycles grows by n, and so does cycles,
\* which is reduced modulo screen_cycles when the display has its turn.
AddsCycles(n) ==
    /\ cpu'.total_cycles = cpu.total_cycles + n
    /\ cpu'.cycles = IF cpu.cycles + n >= screen_cycles
                     THEN (cpu.cycles + n) % screen_cycles
                     ELSE cpu.cycles + n

\* The cycle pair (taken, not taken) the table has for the opcode at PC.
CyclePair == opcodes[OpcodeAtPC].cycles

\* A conditional instruction of `ops` adds the first element of its pair
\* when the branch is taken and the second when it is not.
CyclesAsInTable(ops) ==
    /\ Executes(ops) /\ ConditionHolds => AddsCycles(CyclePair[1])
    /\ Executes(ops) /\ ~ConditionHolds => AddsCycles(CyclePair[2])

\* C28: every conditional JR, JP, CALL and RET adds to cycles and
\* total_cycles the first (taken) element of the table's cycle pair when
\* the branch is taken and the second (not taken) when it is not.
C28_BranchCycles == [][CyclesAsInTable(ConditionalOpcodes)]_vars

\* C28 as the code has it: RET NZ (0xc0) adds the second element when it
\* returns and the first when it does not.
C28_BranchCyclesAsCoded ==
    [][/\ CyclesAsInTable(ConditionalOpcodes \ {\hc0})
       /\ Executes({\hc0}) /\ ConditionHolds => AddsCycles(CyclePair[2])
       /\ Executes({\hc0}) /\ ~ConditionHolds => AddsCycles(CyclePair[1])]_vars

\* RET Z has returned and taken 20 cycles.
C28_Witness ==
    /\ Stepped({\hc8}) /\ last.address = Entry /\ Before16(AF) % 256 = \h80
    /\ Now16(SP) = Before16(SP) + 2
    /\ cpu.total_cycles = last.cpu.total_cycles + 20

\* RET NZ has returned and taken 8 cycles.
C28_WitnessRetNZ ==
    /\ Stepped({\hc0}) /\ last.address = Entry /\ Before16(AF) % 256 = \h00
    /\ Now16(SP) = Before16(SP) + 2
    /\ cpu.total_cycles = last.cpu.total_cycles + 8

\* CALL NC was not taken and took 12 cycles.
C28_WitnessNotTaken ==
    /\ Stepped({\hd4}) /\ last.address = Entry /\ Now16(PC) = Entry + 3
    /\ cpu.total_cycles = last.cpu.total_cycles + 12

(***************************************************************************)
(* C29: ADD A,x and ADC A,x.                                               *)
(***************************************************************************)
AddOpcodes == (\h80..\h87) \cup {\hc6}

AdcOpcodes == (\h88..\h8f) \cup {\hce}

\* The operand the three low bits of an opcode name (6 is the byte at
\* (HL)); d8 is the byte after the opcode.
NamedOperand(n) ==
    IF n = 6 THEN Peek(Machine, Reg16(Machine, HL))
    ELSE Reg8(Machine, EncodedRegister(n))

AddOperand ==
    IF OpcodeAtPC \in {\hc6, \hce} THEN Peek(Machine, Reg16(Machine, PC) + 1)
    ELSE NamedOperand(OpcodeAtPC % 8)

\* The operand the code adds: ADC A,E takes D, ADC A,L takes H and ADC A,A
\* takes the byte at (HL).
AddOperandAsCoded ==
    CASE OpcodeAtPC = \h8b -> Reg8(Machine, D)
      [] OpcodeAtPC = \h8d -> Reg8(Machine, H)
      [] OpcodeAtPC = \h8f -> Peek(Machine, Reg16(Machine, HL))
      [] OTHER -> AddOperand

\* The carry that goes into the sum: the C flag for ADC, 0 for ADD.
CarryIn == IF OpcodeAtPC \in AdcOpcodes THEN C_flag(Machine) ELSE 0

\* A is the sum modulo 0x100, Z tells whether it is zero, and N = 0.
AddResult(x) ==
    /\ Reg8(Machine', A) = (Reg8(Machine, A) + x + CarryIn) % \h100
    /\ Z_flag(Machine') = Bool(Reg8(Machine', A) = 0)
    /\ N_flag(Machine') = 0

\* C29: ADD A,x and ADC A,x, x being B, C, D, E, H, L, the byte at (HL), A
\* or d8, set A = (A + x + cin) mod 0x100 (cin = 0 for ADD, the C flag for
\* ADC), Z = (result = 0), N = 0, H = ((A & 0xf) + (x & 0xf) + cin > 0xf)
\* and C = (A + x + cin > 0xff), A and x taken before the instruction.
C29_AddAdc ==
    [][Executes(AddOpcodes \cup AdcOpcodes) =>
          /\ AddResult(AddOperand)
          /\ H_flag(Machine') =
                Bool((Reg8(Machine, A) % 16) + (AddOperand % 16) + CarryIn > \h0f)
          /\ C_flag(Machine') =
                Bool(Reg8(Machine, A) + AddOperand + CarryIn > \hff)]_vars

\* C29 as the code has it: the operand is the one the code takes, and H
\* and C keep their values.
C29_AddAdcAsCoded ==
    [][Executes(AddOpcodes \cup AdcOpcodes) =>
          /\ AddResult(AddOperandAsCoded)
          /\ H_flag(Machine') = H_flag(Machine)
          /\ C_flag(Machine') = C_flag(Machine)]_vars

\* ADD A,B has run with A = 0x90 and B = 0x90: A = 0x20, and C is as before.
C29_Witness ==
    /\ Stepped({\h80}) /\ last.address = Entry
    /\ Before16(AF) = \h90f0 /\ Before16(BC) = \h9013
    /\ Reg8(Machine, A) = \h20 /\ Reg8(Machine, F) = \h30

\* ADC A,E has run with the carry set and added D.
C29_WitnessAdc ==
    /\ Stepped({\h8b}) /\ last.address = Entry
    /\ Before16(AF) = \hff10 /\ Before16(DE) = \h8000
    /\ Reg8(Machine, A) = \h80

(***************************************************************************)
(* C30: the loads through HL with post-increment and post-decrement.       *)
(***************************************************************************)
\* LD (HL+),A and LD (HL-),A; LD A,(HL+) and LD A,(HL-).
HlStoreOpcodes == {\h22, \h32}

HlLoadOpcodes == {\h2a, \h3a}

\* +1 for the opcodes that increment HL, -1 for those that decrement it.
HlDelta == IF OpcodeAtPC \in {\h22, \h2a} THEN 1 ELSE 0 - 1

\* One of `ops` is stepped on; a store goes to RAM that holds what is
\* written to it.
HlStep(ops) ==
    /\ StepsOn(ops)
    /\ OpcodeAtPC \in HlStoreOpcodes => Reg16(Machine, HL) \in WritableRam

\* The byte is transferred to or from the address HL held before.
HlTransfers ==
    /\ raised' = NoError
    /\ OpcodeAtPC \in HlStoreOpcodes =>
          /\ Peek(Machine', Reg16(Machine, HL)) = Reg8(Machine, A)
          /\ Reg8(Machine', A) = Reg8(Machine, A)
    /\ OpcodeAtPC \in HlLoadOpcodes =>
          /\ Reg8(Machine', A) = Peek(Machine, Reg16(Machine, HL))
          /\ memory' = memory /\ display'.ram = display.ram
    /\ Reg8(Machine', F) = Reg8(Machine, F)

\* C30: LD (HL+),A (0x22), LD A,(HL+) (0x2a), LD (HL-),A (0x32) and
\* LD A,(HL-) (0x3a) each execute without error, transfer the byte to or
\* from the address HL held before, then set HL to (HL + 1) mod 0x10000
\* resp. (HL - 1) mod 0x10000, and leave F unchanged.
C30_LoadHlStep ==
    [][HlStep(HlStoreOpcodes \cup HlLoadOpcodes) =>
          /\ HlTransfers
          /\ Reg16(Machine', HL) = (Reg16(Machine, HL) + HlDelta) % \h10000]_vars

\* C30 as the code has it: LD A,(HL+) sets HL to (HL + 1) mod 0xffff, and
\* 0x3a has no row in the opcode table, so that decoding it fails and
\* nothing changes.
C30_LoadHlStepAsCoded ==
    [][/\ HlStep({\h22, \h32, \h2a}) =>
             /\ HlTransfers
             /\ Reg16(Machine', HL) =
                   IF OpcodeAtPC = \h2a THEN (Reg16(Machine, HL) + 1) % \hffff
                   ELSE (Reg16(Machine, HL) + HlDelta) % \h10000
       /\ StepsOn({\h3a}) =>
             /\ raised' = OpcodeError
             /\ cpu' = cpu /\ memory' = memory /\ display' = display]_vars

\* LD (HL+),A has run with HL = 0xffff: A is stored there and HL is 0.
C30_Witness ==
    /\ Stepped({\h22}) /\ last.address = Entry /\ Before16(HL) = \hffff
    /\ Before16(AF) = \h1000 /\ Peek(Machine, \hffff) = \h10
    /\ Now16(HL) = \h0000

\* LD A,(HL+) has run with HL = 0xfffe and left HL = 0.
C30_WitnessInc16 ==
    /\ Stepped({\h2a}) /\ last.address = Entry /\ Before16(HL) = \hfffe
    /\ Now16(HL) = \h0000

\* The step on 0x3a has failed.
C30_WitnessNoRow ==
    /\ last.op = "step" /\ last.value = \h3a /\ last.address = Entry
    /\ raised = OpcodeError /\ Now16(PC) = Entry

(***************************************************************************)
(* C31: INC rr and DEC rr.                                                 *)
(***************************************************************************)
IncPairOpcodes == {\h03, \h13, \h23, \h33}

DecPairOpcodes == {\h0b, \h1b, \h2b, \h3b}

\* The pair bits 5..4 of the opcode at PC name: BC, DE, HL, SP.
NamedPair ==
    CASE (OpcodeAtPC \div 16) % 4 = 0 -> BC
      [] (OpcodeAtPC \div 16) % 4 = 1 -> DE
      [] (OpcodeAtPC \div 16) % 4 = 2 -> HL
      [] (OpcodeAtPC \div 16) % 4 = 3 -> SP

\* The step leaves AF and the pairs other than `pair` as they were.
KeepsOtherPairs(pair) ==
    \A rr \in {AF, BC, DE, HL, SP} \ {pair} :
       Reg16(Machine', rr) = Reg16(Machine, rr)

\* The step on one of `ops` ends without error with the pair it names
\* changed by `delta`, no other pair and no flag changed.
PairStepsBy(ops, delta) ==
    StepsOn(ops) =>
        /\ raised' = NoError
        /\ Reg16(Machine', NamedPair) = (Reg16(Machine, NamedPair) + delta) % \h10000
        /\ KeepsOtherPairs(NamedPair)

\* C31: INC rr and DEC rr, rr in BC, DE, HL, SP (0x03, 0x13, 0x23, 0x33
\* and 0x0b, 0x1b, 0x2b, 0x3b), execute without error, set rr to
\* (rr + 1) mod 0x10000 resp. (rr - 1) mod 0x10000, change no other
\* register pair and leave F unchanged.
C31_IncDecPair ==
    [][/\ PairStepsBy(IncPairOpcodes, 1)
       /\ PairStepsBy(DecPairOpcodes, 0 - 1)]_vars

\* C31 as the code has it: 0x1b rotates E right through the carry flag
\* without setting a flag, and 0x3b has no row in the opcode table.
C31_IncDecPairAsCoded ==
    [][/\ PairStepsBy(IncPairOpcodes, 1)
       /\ PairStepsBy({\h0b, \h2b}, 0 - 1)
       /\ StepsOn({\h1b}) =>
             /\ raised' = NoError
             /\ Reg8(Machine', E) =
                   (Reg8(Machine, E) \div 2) + 128 * C_flag(Machine)
             /\ Reg8(Machine', D) = Reg8(Machine, D)
             /\ KeepsOtherPairs(DE)
       /\ StepsOn({\h3b}) =>
             /\ raised' = OpcodeError
             /\ cpu' = cpu /\ memory' = memory /\ display' = display]_vars

\* INC HL has run with HL = 0xffff: HL is 0 and F is as before.
C31_Witness ==
    /\ Stepped({\h23}) /\ last.address = Entry /\ Before16(HL) = \hffff
    /\ Now16(HL) = \h0000 /\ Now16(AF) = Before16(AF) /\ Now16(AF) = \h1000

\* DEC BC has run.
C31_WitnessDec ==
    /\ Stepped({\h0b}) /\ last.address = Entry /\ Before16(BC) = \h9013
    /\ Now16(BC) = \h9012

\* 0x1b has run with DE = 0xfff1 and the carry clear: DE is 0xff78.
C31_WitnessRrE ==
    /\ Stepped({\h1b}) /\ last.address = Entry /\ Before16(DE) = \hfff1
    /\ Before16(AF) = \h1000 /\ Now16(DE) = \hff78

(***************************************************************************)
(* C32: ADD HL,rr.                                                         *)
(***************************************************************************)
AddHlOpcodes == {\h09, \h19, \h29, \h39}

\* HL + rr before the step, rr the pair the opcode at PC names.
AddHlSum == Reg16(Machine, HL) + Reg16(Machine, NamedPair)

\* The carry out of bit 11 of HL + rr.
AddHlHalfCarry ==
    Bool((Reg16(Machine, HL) % \h1000) + (Reg16(Machine, NamedPair) % \h1000)
            > \h0fff)

\* The step on one of `ops` ends without error with HL the sum, N
\* cleared, Z as it was and nothing else but H and C changed.
AddHlStep(ops) ==
    StepsOn(ops) =>
        /\ raised' = NoError
        /\ Reg16(Machine', HL) = AddHlSum % \h10000
        /\ N_flag(Machine') = 0
        /\ Z_flag(Machine') = Z_flag(Machine)
        /\ Reg8(Machine', A) = Reg8(Machine, A)
        /\ \A rr \in {BC, DE, SP} \ {HL} :
              Reg16(Machine', rr) = Reg16(Machine, rr)

\* C32: ADD HL,rr (0x09, 0x19, 0x29, 0x39) executes without error, sets
\* HL to (HL + rr) mod 0x10000, clears N, sets H to the carry out of
\* bit 11 and C to the carry out of bit 15, and leaves Z unchanged.
C32_AddHl ==
    [][/\ AddHlStep(AddHlOpcodes)
       /\ StepsOn(AddHlOpcodes) =>
             /\ H_flag(Machine') = AddHlHalfCarry
             /\ C_flag(Machine') = Bool(AddHlSum > \hffff)]_vars

\* C32 as the code has it: no arm sets H, only ADD HL,BC and ADD HL,HL
\* set C, and 0x39 has no row in the opcode table.
C32_AddHlAsCoded ==
    [][/\ AddHlStep({\h09, \h19, \h29})
       /\ StepsOn({\h09, \h19, \h29}) =>
             H_flag(Machine') = H_flag(Machine)
       /\ StepsOn({\h09, \h29}) =>
             C_flag(Machine') = Bool(AddHlSum > \hffff)
       /\ StepsOn({\h19}) => C_flag(Machine') = C_flag(Machine)
       /\ StepsOn({\h39}) =>
             /\ raised' = OpcodeError
             /\ cpu' = cpu /\ memory' = memory /\ display' = display]_vars

\* ADD HL,BC has run with HL = 0xffff and BC = 0x010f: HL is 0x010e
\* and C is set.
C32_Witness ==
    /\ Stepped({\h09}) /\ last.address = Entry
    /\ Before16(HL) = \hffff /\ Before16(BC) = \h010f
    /\ Now16(HL) = \h010e /\ C_flag(Machine) = 1 /\ N_flag(Machine) = 0

\* ADD HL,DE has run with a carry out of bit 15 and C is still clear.
C32_WitnessNoCarry ==
    /\ Stepped({\h19}) /\ last.address = Entry
    /\ Before16(HL) + Before16(DE) > \hffff
    /\ C_flag(Machine) = 0

\* ADD HL,HL has run with a carry out of bit 11 and H is still clear.
C32_WitnessNoHalfCarry ==
    /\ Stepped({\h29}) /\ last.address = Entry
    /\ (Before16(HL) % \h1000) * 2 > \h0fff
    /\ H_flag(Machine) = 0

(***************************************************************************)
(* C33: RLCA, RRCA, RLA, RRA.                                              *)
(***************************************************************************)
RotateOpcodes == {\h07, \h0f, \h17, \h1f}

\* The step on `opcode` ends without error with A = a and C = c.
RotatesTo(opcode, a, c) ==
    StepsOn({opcode}) =>
        /\ raised' = NoError
        /\ Reg8(Machine', A) = a
        /\ C_flag(Machine') = c

\* The step on one of `ops` clears Z, N and H.
ClearsZNH(ops) ==
    StepsOn(ops) =>
        /\ Z_flag(Machine') = 0
        /\ N_flag(Machine') = 0
        /\ H_flag(Machine') = 0

OldBit7 == Reg8(Machine, A) \div 128

OldBit0 == Reg8(Machine, A) % 2

ShiftedLeft == (Reg8(Machine, A) * 2) % 256

ShiftedRight == Reg8(Machine, A) \div 2

\* C33: RLCA sets A to ((A << 1) | (A >> 7)) & 0xff and C to old bit 7;
\* RRCA sets A to (A >> 1) | ((A & 1) << 7) and C to old bit 0; RLA sets
\* A to ((A << 1) | c) & 0xff and C to old bit 7; RRA sets A to
\* (A >> 1) | (c << 7) and C to old bit 0, c the prior carry; all four
\* set Z = 0, N = 0, H = 0.
C33_Rotates ==
    [][/\ RotatesTo(\h07, ShiftedLeft + OldBit7, OldBit7)
       /\ RotatesTo(\h0f, ShiftedRight + 128 * OldBit0, OldBit0)
       /\ RotatesTo(\h17, ShiftedLeft + C_flag(Machine), OldBit7)
       /\ RotatesTo(\h1f, ShiftedRight + 128 * C_flag(Machine), OldBit0)
       /\ ClearsZNH(RotateOpcodes)]_vars

\* C33 as the code has it: RLCA shifts a zero into bit 0, RRCA rotates
\* through the carry as RRA does, and RLA changes no flag.
C33_RotatesAsCoded ==
    [][/\ RotatesTo(\h07, ShiftedLeft, OldBit7)
       /\ RotatesTo(\h0f, ShiftedRight + 128 * C_flag(Machine), OldBit0)
       /\ RotatesTo(\h17, ShiftedLeft + C_flag(Machine), C_flag(Machine))
       /\ RotatesTo(\h1f, ShiftedRight + 128 * C_flag(Machine), OldBit0)
       /\ ClearsZNH({\h07, \h0f, \h1f})
       /\ StepsOn({\h17}) => Reg8(Machine', F) = Reg8(Machine, F)]_vars

\* RRA has run with A = 0x90 and the carry set: A is 0xc8, F is 0x00.
C33_Witness ==
    /\ Stepped({\h1f}) /\ last.address = Entry /\ Before16(AF) = \h90f0
    /\ Now16(AF) = \hc800

\* RLCA has run with A = 0x90: bit 7 went to C and not to bit 0.
C33_WitnessRlca ==
    /\ Stepped({\h07}) /\ last.address = Entry /\ Before16(AF) = \h90f0
    /\ Now16(AF) = \h2010

\* RLA has run with A = 0x80 and F = 0x50: A is 0x01 and F is 0x50.
C33_WitnessRla ==
    /\ Stepped({\h17}) /\ last.address = Entry /\ Before16(AF) = \h8050
    /\ Now16(AF) = \h0150

\* RRCA has run with A = 0x90 and the carry set: bit 7 is the carry.
C33_WitnessRrca ==
    /\ Stepped({\h0f}) /\ last.address = Entry /\ Before16(AF) = \h90f0
    /\ Now16(AF) = \hc800

(***************************************************************************)
(* C34: the length of a CB-prefixed instruction.                           *)
(***************************************************************************)
\* The byte after the opcode at PC.
SecondByte == Peek(Machine, Reg16(Machine, PC) + 1)

\* A step on the prefix 0xcb followed by one of `ops`.
StepsOnCB(ops) == StepsOn({\hcb}) /\ SecondByte \in ops

\* The cycles of the prefix and of the extended opcode after it.
CBCycles == opcodes[\hcb].cycles[1] + extended_opcodes[SecondByte].cycles[1]

\* The step on 0xcb followed by one of `ops` leaves PC `length` bytes
\* after the prefix and adds the cycles of the prefix and of the entry.
CBOccupies(ops, length) ==
    StepsOnCB(ops) =>
        /\ Reg16(Machine', PC) = (Reg16(Machine, PC) + length) % \h10000
        /\ AddsCycles(CBCycles)

\* The extended opcodes whose table entry has a byte length of 2.
SwapOpcodes == {x \in DOMAIN extended_opcodes : extended_opcodes[x].bytelen = 2}

\* C34: every CB-prefixed instruction that has an entry in the CB table
\* occupies exactly two bytes: after the step PC = p + 2, p the address
\* of the 0xcb byte, no byte after the second is consumed as an operand,
\* and the cycles charged are the prefix's plus the CB table's.
C34_CBLength ==
    [][CBOccupies(DOMAIN extended_opcodes, 2)]_vars

\* C34 as the code has it: the SWAP entries have a byte length of 2, so
\* decode reads the third byte as an operand and steps over it.
C34_CBLengthAsCoded ==
    [][/\ CBOccupies(DOMAIN extended_opcodes \ SwapOpcodes, 2)
       /\ CBOccupies(SwapOpcodes, 3)]_vars

\* BIT 7,H has run at 0x0150: PC is 0x0152 and 12 cycles were added.
C34_Witness ==
    /\ Stepped({\hcb}) /\ last.address = Entry
    /\ Peek(Machine, Entry + 1) = \h7c
    /\ Now16(PC) = Entry + 2
    /\ cpu.total_cycles = last.cpu.total_cycles + 12

\* SWAP A has run at 0x0150: PC is 0x0153.
C34_WitnessSwap ==
    /\ Stepped({\hcb}) /\ last.address = Entry
    /\ Peek(Machine, Entry + 1) = \h37
    /\ Now16(PC) = Entry + 3
    /\ cpu.total_cycles = last.cpu.total_cycles + 12

(***************************************************************************)
(* C35: which bytes a bus write changes.                                   *)
(***************************************************************************)
\* A write to `address` is the step taken.
Writes(address) ==
    /\ last'.op = "write" /\ steps' = steps + 1
    /\ last'.address = address

\* The cell a write to `address` is mirrored to when the mirrored ranges
\* end at `top` and `top` + 0x2000.
MirrorOf(address, top) ==
    IF \hc000 <= address /\ address <= top THEN {address + \h1000}
    ELSE IF \he000 <= address /\ address <= top + \h2000 THEN {address - \h1000}
    ELSE {}

\* The cells watched: the addresses written, the cells 0x1000 and 0x2000
\* above and below them, and the ends of the three RAM regions.
WatchedCells ==
    ({a + d : a \in WriteAddresses, d \in {0 - \h2000, 0 - \h1000, 0, \h1000, \h2000}}
        \cup {\h8000, \h9fff, \ha000, \hbfff, \hc000, \hffff})
    \cap WritableRam

\* A write to RAM puts the value's low byte at the address and at its
\* mirror and leaves every other watched cell as it was.
WriteChanges(top) ==
    \A a \in WriteAddresses \cap WritableRam :
       Writes(a) =>
          /\ raised' = NoError
          /\ \A b \in {a} \cup MirrorOf(a, top) :
                Peek(Machine', b) = last'.value % \h100
          /\ \A b \in WatchedCells \ ({a} \cup MirrorOf(a, top)) :
                Peek(Machine', b) = Peek(Machine, b)

\* C35: a bus write to an address a >= 0x8000 that is no LCD register
\* changes the byte at a and, only when a is in 0xc000..0xddff or
\* 0xe000..0xfdff, also the byte at a + 0x1000 resp. a - 0x1000; every
\* other byte of video RAM, external RAM and work RAM is unchanged (a
\* write to 0xde00 or 0xfe00 does not change 0xee00).
C35_WriteChanges == [][WriteChanges(\hddff)]_vars

\* C35 as the code has it: the mirrored ranges end at 0xde00 and 0xfe00.
C35_WriteChangesAsCoded == [][WriteChanges(\hde00)]_vars

\* 0x91 was written to 0xc000: 0xc000 and 0xd000 hold it, 0xe000 not.
C35_Witness ==
    /\ WroteTo(\hc000) /\ last.value = \h91 /\ steps = 1
    /\ Peek(Machine, \hc000) = \h91 /\ Peek(Machine, \hd000) = \h91
    /\ Peek(Machine, \he000) # \h91

\* 0x91 was written to 0xfe00 and 0xee00 holds it, too.
C35_WitnessTop ==
    /\ WroteTo(\hfe00) /\ last.value = \h91 /\ steps = 1
    /\ Peek(Machine, \hfe00) = \h91 /\ Peek(Machine, \hee00) = \h91

\* 0x91 was written to 0xde00 and 0xee00 holds it, too.
C35_WitnessMiddle ==
    /\ WroteTo(\hde00) /\ last.value = \h91 /\ steps = 1
    /\ Peek(Machine, \hde00) = \h91 /\ Peek(Machine, \hee00) = \h91

\* 0x91 was written to external RAM.
C35_WitnessExternal ==
    /\ WroteTo(\ha000) /\ last.value = \h91
    /\ Peek(Machine, \ha000) = \h91

(***************************************************************************)
(* C36: the two cycle counters and the display's turn.                     *)
(***************************************************************************)
\* A step is taken and ends without error.
StepSucceeds == last'.op = "step" /\ steps' = steps + 1 /\ raised' = NoError

\* The costs the tables have for the instruction at PC.
TableCosts ==
    IF OpcodeAtPC = \hcb /\ SecondByte \in DOMAIN extended_opcodes
    THEN {CBCycles}
    ELSE {CyclePair[i] : i \in DOMAIN CyclePair}

\* The cycles the step charged.
Charged == cpu'.total_cycles - cpu.total_cycles

\* The accumulator reaches the budget of a scanline in this step.
ReachesBudget == cpu.cycles + Charged >= screen_cycles

\* The counters after a successful step.
CountersAfterStep ==
    StepSucceeds =>
        /\ 0 <= cpu'.cycles /\ cpu'.cycles < screen_cycles
        /\ Charged \in TableCosts
        /\ cpu'.total_cycles >= cpu.total_cycles
        /\ cpu'.cycles = cpu'.total_cycles % screen_cycles

\* LY after one tick of the display from `ly`.
OneTick(ly) == ly_rollover([display EXCEPT !.LY = ly]).LY

\* The display has its turn exactly when the budget is reached, and once:
\* LY, or the value in `stored` the instruction left in it, is one tick
\* on when the screen is on, and as it was when the budget is not reached.
DisplayTurn(stored) ==
    StepSucceeds =>
        /\ ~ReachesBudget => display'.LY \in {display.LY} \cup stored
        /\ ReachesBudget /\ screen_on(display') =>
              display'.LY \in {OneTick(ly) : ly \in {display.LY} \cup stored}
        /\ ReachesBudget /\ ~screen_on(display') =>
              display'.LY \in {display.LY} \cup stored

\* C36: after every successful CPU step 0 <= cycles < the scanline
\* budget, total_cycles has grown by exactly the cost of the instruction
\* and so never decreases, cycles = total_cycles mod budget, and
\* display.step() was invoked at most once, exactly when the accumulator
\* reached the budget, so that LY changes by at most one tick per step.
C36_Cycles ==
    [][CountersAfterStep /\ DisplayTurn({})]_vars

\* C36 with the one exception the bus makes: an instruction that stores
\* to LY (0xff44) resets it to 0 before the display has its turn.
C36_CyclesButLyStore ==
    [][CountersAfterStep /\ DisplayTurn({0})]_vars

\* EI has run with 452 cycles of the scanline spent: the display had its
\* turn, cycles is 0 and LY is one line on.
C36_Witness ==
    /\ Stepped({\hfb}) /\ last.cpu.cycles = 452
    /\ cpu.cycles = 0 /\ cpu.total_cycles = 456
    /\ display.LY = 1

\* PUSH BC has run with 452 cycles spent: 12 cycles are carried over.
C36_WitnessCarried ==
    /\ Stepped({\hc5}) /\ last.cpu.cycles = 452
    /\ cpu.cycles = 12 /\ cpu.total_cycles = 468
    /\ display.LY = 1

\* LDH (0x44),A has run at line 127 without reaching the budget: LY is 0.
C36_WitnessLyStore ==
    /\ Stepped({\he0}) /\ last.address = Entry /\ last.cpu.cycles = 0
    /\ Peek(Machine, Entry + 1) = \h44
    /\ cpu.cycles = 12 /\ display.LY = 0

(***************************************************************************)
(* C37: the colour of a background pixel.                                  *)
(***************************************************************************)
\* The display has its turn with screen and background on, draws the
\* scanline without error and does not end the frame.
DrawsScanline ==
    /\ Ticks /\ raised' = NoError
    /\ screen_on(display) /\ background_display(display)
    /\ display'.LY # 0

\* The offset in video RAM of the row of tile `index` of the scanline at
\* LY, as render_background_scanline finds it.
RowOffset(index) ==
    LET ypos == (display.LY \div 8) * 8
        number == ArrayGet(display.ram, tile_table_address(display)[1] - ram_offset
                                        + ypos * 4 + index)
    IN tile_data_address(display) - ram_offset + (display.LY - ypos) * 2
       + 16 * (IF tile_table_address(display)[2] THEN u8_to_signed(number)
               ELSE number)

\* The two bytes of that row: lo first, hi second.
RowLo(index) == ArrayGet(display.ram, RowOffset(index))

RowHi(index) == ArrayGet(display.ram, RowOffset(index) + 1)

\* Bit n of the byte.
BitOf(byte, n) == (byte \div (2 ^ n)) % 2

\* The colour index of pixel k of a row with the bytes lo and hi.
ColourIndex(lo, hi, k) == 2 * BitOf(hi, 7 - k) + BitOf(lo, 7 - k)

\* The pixel (x, y) is in the list of coordinates.
Listed(coordinates, x, y) ==
    \E j \in 1..(Len(coordinates) \div 2) :
       coordinates[2 * j - 1] = x /\ coordinates[2 * j] = y

\* C37: in background scanline rendering, for the two row bytes lo
\* (first) and hi (second) of a tile and k in 0..7, the colour index of
\* pixel k (k = 0 leftmost) is
\* (((hi >> (7-k)) & 1) << 1) | ((lo >> (7-k)) & 1), always in 0..3.
C37_TileDecoding ==
    [][DrawsScanline =>
          \A index \in 0..31, k \in 0..7, color \in DOMAIN display'.pixels :
             /\ color \in 0..3
             /\ Listed(display'.pixels[color], 8 * index + k, display.LY)
                   <=> color = ColourIndex(RowLo(index), RowHi(index), k)]_vars

\* Line 0 was drawn from the row bytes 0x35 and 0x0f of tile 0: its
\* pixels 3 to 7 have the colours 1, 2, 3, 2, 3.
C37_Witness ==
    /\ last.op = "tick" /\ steps = 1 /\ raised = NoError /\ display.LY = 1
    /\ display.LCDCONT = \h91
    /\ ArrayGet(display.ram, \h0000) = \h35 /\ ArrayGet(display.ram, \h0001) = \h0f
    /\ ArrayGet(display.ram, \h1803) = \h00
    /\ Listed(display.pixels[1], 24 + 3, 0) /\ Listed(display.pixels[2], 24 + 4, 0)
    /\ Listed(display.pixels[3], 24 + 5, 0) /\ Listed(display.pixels[2], 24 + 6, 0)
    /\ Listed(display.pixels[3], 24 + 7, 0) /\ Listed(display.pixels[0], 24, 0)

(***************************************************************************)
(* C38: the tile table and the tile data area of the background.           *)
(***************************************************************************)
LcdcBit(n) == BitOf(display.LCDCONT, n)

\* The tile-map base the specification gives for LCDC.
MapBase == IF LcdcBit(3) = 1 THEN \h9c00 ELSE \h9800

\* The number of tile `index` of the scanline at LY in that map.
TileNumber(index) ==
    ArrayGet(display.ram, MapBase - ram_offset + (display.LY \div 8) * 32 + index)

\* The address of the first row byte of tile `index`, with the tile-data
\* base chosen by LCDC bit 4 and the tile number read as signed or not.
RowAddress(index, signed) ==
    (IF LcdcBit(4) = 1 THEN \h8000 ELSE \h8800)
    + 16 * (IF signed THEN u8_to_signed(TileNumber(index))
            ELSE TileNumber(index))
    + (display.LY % 8) * 2

\* The byte of video RAM at the address; an address below 0x8000 counts
\* from the end of the video RAM, as the array of the code does.
VideoByte(address) == ArrayGet(display.ram, address - ram_offset)

\* The pixels of the scanline have the colours of the rows at RowAddress.
DrawnFrom(signed) ==
    \A index \in 0..31, k \in 0..7 :
       Listed(display'.pixels[ColourIndex(VideoByte(RowAddress(index, signed)),
                                          VideoByte(RowAddress(index, signed) + 1),
                                          k)],
              8 * index + k, display.LY)

\* C38: when a background scanline is rendered the tile-map base is
\* 0x9c00 if LCDC bit 3 is set and 0x9800 otherwise, and the tile-data
\* base is 0x8000 with tile numbers read as unsigned 0..255 if LCDC bit 4
\* is set and 0x8800 with tile numbers read as signed -128..127 otherwise;
\* whether the number is signed depends on bit 4 only, not on bit 3.
C38_TileAddressing ==
    [][DrawsScanline => DrawnFrom(LcdcBit(4) = 0)]_vars

\* C38 as the code has it: the tile number is read as signed when LCDC
\* bit 3 is set, whatever bit 4 is.
C38_TileAddressingAsCoded ==
    [][DrawsScanline => DrawnFrom(LcdcBit(3) = 1)]_vars

\* Line 0 was drawn with LCDC = 0x91: tile number 0x80 of the map at
\* 0x9800 was read as 128 and its row taken at 0x8800.
C38_Witness ==
    /\ last.op = "tick" /\ steps = 1 /\ raised = NoError /\ display.LY = 1
    /\ display.LCDCONT = \h91
    /\ VideoByte(\h9801) = \h80 /\ VideoByte(\h8800) = \haa
    /\ VideoByte(\h8801) = \h55
    /\ Listed(display.pixels[1], 8, 0) /\ Listed(display.pixels[2], 9, 0)

\* Line 0 was drawn with LCDC = 0x81: tile number 0x80 was read as 128
\* and its row taken at 0x9000, not at 0x8000.
C38_WitnessUnsigned ==
    /\ last.op = "tick" /\ steps = 1 /\ raised = NoError /\ display.LY = 1
    /\ display.LCDCONT = \h81
    /\ VideoByte(\h9801) = \h80 /\ VideoByte(\h9000) = \h01
    /\ VideoByte(\h9001) = \h80 /\ VideoByte(\h8000) = \h35
    /\ Listed(display.pixels[2], 8, 0) /\ Listed(display.pixels[1], 15, 0)
    /\ Listed(display.pixels[0], 10, 0)

\* Line 0 was drawn with LCDC = 0x99: tile number 0x80 of the map at
\* 0x9c00 was read as -128 and its row taken 0x800 below 0x8000, which
\* the array finds at 0x9800.
C38_WitnessSigned ==
    /\ last.op = "tick" /\ steps = 1 /\ raised = NoError /\ display.LY = 1
    /\ display.LCDCONT = \h99
    /\ VideoByte(\h9c01) = \h80 /\ VideoByte(\h9800) = \h01
    /\ VideoByte(\h9801) = \h80
    /\ Listed(display.pixels[2], 8, 0) /\ Listed(display.pixels[1], 15, 0)
    /\ Listed(display.pixels[0], 16, 0)

(***************************************************************************)
(* C39: the range of LY.                                                   *)
(***************************************************************************)
\* The number of scanlines of a frame (Display.scanlines).
scanlines == 154

\* The display has its turn with the screen on at line `ly`.
TicksAt(ly) == Ticks /\ screen_on(display) /\ display.LY = ly

\* The tick ends the frame: LY is 0 again and the pixel buffers are flushed.
PresentsFrame ==
    /\ raised' = NoError
    /\ display'.LY = 0
    /\ display'.pixels = NoPixels /\ display'.tile_pixels = NoPixels

\* C39: in every reachable state LY is in 0..153: the tick taken at
\* LY = 153 returns the counter to 0 and presents the frame, so a frame
\* is 154 scanlines, the count the CPU derives its cycle budget from.
C39_LyRange ==
    [][/\ display.LY \in 0..(scanlines - 1) => display'.LY \in 0..(scanlines - 1)
       /\ TicksAt(scanlines - 1) => PresentsFrame]_vars

\* C39 as the code has it: LY counts on to 255, and the tick at 255 is
\* the one that presents the frame.
C39_LyRangeAsCoded ==
    [][/\ display.LY \in 0..255 => display'.LY \in 0..255
       /\ TicksAt(scanlines - 1) =>
             /\ raised' = NoError /\ display'.LY = scanlines
             /\ background_display(display) => display'.pixels # NoPixels
       /\ TicksAt(255) => PresentsFrame]_vars

\* The display had its turn at line 153 and LY is 154, the line drawn
\* still in the pixel buffer.
C39_Witness ==
    /\ last.op = "tick" /\ steps = 1 /\ raised = NoError
    /\ last.cpu = cpu /\ display.LCDCONT = \h91
    /\ display.LY = scanlines /\ Listed(display.pixels[0], 0, scanlines - 1)

\* The display had its turn at line 255: LY is 0 and the frame presented.
C39_WitnessWrap ==
    /\ last.op = "tick" /\ steps = 2 /\ raised = NoError
    /\ display.LCDCONT = \h91 /\ display.LY = 0
    /\ display.pixels = NoPixels

(***************************************************************************)
(* C40: what a step leaves behind that fails on its opcode.                *)
(***************************************************************************)
\* How a step ends that fails because of its opcode: no row in a table,
\* an illegal opcode, no arm in execute, HALT or STOP.
OpcodeFailures ==
    {OpcodeError, KeyError, InvalidOpcodeError, unknown_opcode, not_implemented}

\* The transition is a CPU step that fails in one of the `kinds`.
StepFails(kinds) ==
    /\ last'.op = "step" /\ steps' = steps + 1
    /\ raised' \in kinds

\* The bytes the failing step decoded: none when the opcode has no row, the
\* prefix alone when the byte after 0xcb has none, the two bytes STOP
\* stands for and the two of the row it is decoded with, else those of the
\* opcode's row.
DecodedBytes ==
    IF OpcodeAtPC \notin DOMAIN opcodes THEN 0
    ELSE IF OpcodeAtPC = \hcb
    THEN IF SecondByte \in DOMAIN extended_opcodes
         THEN 1 + extended_opcodes[SecondByte].bytelen ELSE 1
    ELSE IF OpcodeAtPC = \h10 THEN 2 * opcodes[\h10].bytelen
    ELSE opcodes[OpcodeAtPC].bytelen

\* C40: when a CPU step fails because its opcode is illegal, unknown,
\* HALT or STOP, it has changed nothing but PC (advanced past the bytes
\* it decoded): A, F, B, C, D, E, H, L, SP, IME, all memory, the selected
\* ROM bank, boot_rom_active, LY, cycles and total_cycles are as before.
C40_FailedStepKeepsState ==
    [][StepFails(OpcodeFailures) =>
          /\ OnlyPCChanges
          /\ Reg16(Machine', PC) = (Reg16(Machine, PC) + DecodedBytes) % \h10000
          /\ memory'.home = memory.home
          /\ memory'.boot_rom_active = memory.boot_rom_active
          /\ display' = display
          /\ cpu'.cycles = cpu.cycles
          /\ cpu'.total_cycles = cpu.total_cycles]_vars

\* The step on the illegal opcode 0xd3 has failed at 0x0150: PC is one on,
\* the registers and the cycles are those of before.
C40_Witness ==
    /\ last.op = "step" /\ last.value = \hd3 /\ raised = InvalidOpcodeError
    /\ last.address = Entry /\ Now16(PC) = Entry + 1
    /\ Now16(AF) = \h90f0 /\ Before16(AF) = \h90f0
    /\ cpu.total_cycles = last.cpu.total_cycles

\* HALT has failed: PC is one on.
C40_WitnessHalt ==
    /\ last.op = "step" /\ last.value = \h76 /\ raised = not_implemented
    /\ last.address = Entry /\ Now16(PC) = Entry + 1 /\ Now16(SP) = Before16(SP)

\* STOP has failed: PC is four on, the cycles are those of before.
C40_WitnessStop ==
    /\ last.op = "step" /\ last.value = \h10 /\ raised = not_implemented
    /\ Now16(PC) = last.address + 4 /\ cpu.total_cycles = last.cpu.total_cycles

\* An opcode without a row has failed: PC is where it was.
C40_WitnessNoRow ==
    /\ last.op = "step" /\ last.value = \h3b /\ raised = OpcodeError
    /\ last.address = Entry /\ Now16(PC) = Entry

\* 0xcb followed by a byte without a row has failed: PC is one on.
C40_WitnessUnknownCB ==
    /\ last.op = "step" /\ last.value = \hcb /\ raised = KeyError
    /\ last.address = Entry /\ Now16(PC) = Entry + 1

====
